---- MODULE Spec2Model ----
(***************************************************************************)
(* A model of the Firefly kernel's hardware-facing code.                   *)
(*                                                                         *)
(*   kernel/int.c   the interrupt descriptor table: createInterruptGate,   *)
(*                  createExceptionGate, debugGate, int_Init and the       *)
(*                  interrupt handlers.                                    *)
(*   kernel/mem.c   the page tables: mem_Init and mem_DebugPaging.         *)
(*                                                                         *)
(* 64-bit quantities are kept as four 16-bit limbs, least significant      *)
(* first, so that every shift, mask and cast of the C code is computed on  *)
(* the full width.                                                         *)
(***************************************************************************)
EXTENDS Integers, Sequences, FiniteSets, TLC

VARIABLES
    idt,          \* the IDT at physical address 0: [0..255 -> idtDescriptor]
    intFlag,      \* RFLAGS.IF, set by sti and iretq, cleared by cli and gate entry
    pc,           \* position of the kernel's main thread of control
    imr,          \* the two 8259 interrupt mask registers (ports 0x21 and 0xa1)
    stack,        \* the handler invocations in progress, innermost last
    time_Ticker,  \* extern uint64 time_Ticker
    layout,       \* where the linker placed the handlers
    halted,       \* "no", or why the CPU left the kernel's code
    arg,          \* the arguments of the gate call under test
    out,          \* the lines debugGate or mem_DebugPaging printed
    tables,       \* the physical memory that holds page tables
    mm,           \* position and locals of mem_Init or mem_DebugPaging
    reads,        \* the tables mem_Init read below the root, with the entry used
    rand,         \* position and locals of rand_Read, and the bytes it stored
    term,         \* the cursor and dimensions of term.c
    printk        \* position and flags of std_Printk's verb parser

intVars == <<idt, intFlag, pc, imr, stack, time_Ticker, layout, halted, arg, out>>

\* What the functions of mem.c leave alone.
intRest == <<idt, intFlag, pc, imr, stack, time_Ticker, layout, halted, arg>>

memVars == <<tables, mm, reads>>

libVars == <<rand, term, printk>>

\* rand.c, term.c and std.c are not running.
LibIdle == rand = <<>> /\ term = <<>> /\ printk = <<>>

vars == <<intVars, memVars, libVars>>

(***************************************************************************)
(* Fixed-width arithmetic.                                                 *)
(***************************************************************************)

RECURSIVE BitAnd(_, _)
BitAnd(x, y) ==
    IF x = 0 \/ y = 0 THEN 0
    ELSE (x % 2) * (y % 2) + 2 * BitAnd(x \div 2, y \div 2)

RECURSIVE BitOr(_, _)
BitOr(x, y) ==
    IF x = 0 THEN y
    ELSE IF y = 0 THEN x
    ELSE (IF x % 2 = 1 \/ y % 2 = 1 THEN 1 ELSE 0) + 2 * BitOr(x \div 2, y \div 2)

\* uint8 cast of an int-typed expression.
Uint8(x) == x % 256

Limbs == 1..4

Limb(a, i) == IF i \in Limbs THEN a[i] ELSE 0

Zero64 == <<0, 0, 0, 0>>

And64(a, b) ==
    <<BitAnd(a[1], b[1]), BitAnd(a[2], b[2]), BitAnd(a[3], b[3]), BitAnd(a[4], b[4])>>

Or64(a, b) ==
    <<BitOr(a[1], b[1]), BitOr(a[2], b[2]), BitOr(a[3], b[3]), BitOr(a[4], b[4])>>

\* a >> n on a uintptr.
Shr64(a, n) ==
    LET q == n \div 16
        r == n % 16
        limb(i) == (Limb(a, i + q) \div (2 ^ r))
                   + (Limb(a, i + q + 1) % (2 ^ r)) * (2 ^ (16 - r))
    IN  <<limb(1), limb(2), limb(3), limb(4)>>

\* a << n on a uintptr; bits shifted past bit 63 are lost.
Shl64(a, n) ==
    LET q == n \div 16
        r == n % 16
        limb(i) == ((Limb(a, i - q) * (2 ^ r)) % 65536)
                   + (Limb(a, i - q - 1) \div (2 ^ (16 - r)))
    IN  <<limb(1), limb(2), limb(3), limb(4)>>

\* (uint16)x and (uint32)x of a uintptr, and the widening casts back.
Uint16Of(a) == a[1]

Uint32Of(a) == <<a[1], a[2]>>

FromUint16(x) == <<x, 0, 0, 0>>

FromUint32(p) == <<p[1], p[2], 0, 0>>

(***************************************************************************)
(* The gate descriptor codec.                                              *)
(***************************************************************************)

IDT_SELECTOR == 8

IDT_FLAG_PRESENT == 128

IDT_TYPE_INTERRUPT_GATE == 14

IDT_TYPE_TRAP_GATE == 15

MASK_BITS_31_TO_16 == <<0, 65535, 0, 0>>

MASK_BITS_15_TO_0 == <<65535, 0, 0, 0>>

Vectors == 0..255

\* The memory at the IDT before int_Init has written it.
BlankGate ==
    [zero |-> 0, offset3 |-> <<0, 0>>, offset2 |-> 0, offset1 |-> 0,
     selector |-> 0, ist |-> 0, type_attr |-> 0]

\* The order in which createInterruptGate stores the fields.
StoreOrder == <<"zero", "offset3", "offset2", "offset1", "selector", "ist", "type_attr">>

GateOffset3(offset) == Uint32Of(Shr64(offset, 32))

\* The middle fragment taken without the shift.
GateOffset2_NoShift(offset) == Uint16Of(And64(MASK_BITS_31_TO_16, offset))

GateOffset2(offset) == Uint16Of(Shr64(And64(MASK_BITS_31_TO_16, offset), 16))

GateOffset1(offset) == Uint16Of(And64(MASK_BITS_15_TO_0, offset))

\* createInterruptGate writing the trap-gate type.
InterruptGateTypeAttr_Trap(privilege) ==
    BitOr(BitOr(IDT_FLAG_PRESENT, Uint8(BitAnd(3, privilege) * 32)),
          IDT_TYPE_TRAP_GATE)

\* The privilege shifted to bit 4 instead of bit 5.
InterruptGateTypeAttr_Shift4(privilege) ==
    BitOr(BitOr(IDT_FLAG_PRESENT, Uint8(BitAnd(3, privilege) * 16)),
          IDT_TYPE_INTERRUPT_GATE)

InterruptGateTypeAttr(privilege) ==
    BitOr(BitOr(IDT_FLAG_PRESENT, Uint8(BitAnd(3, privilege) * 32)),
          IDT_TYPE_INTERRUPT_GATE)

\* createExceptionGate writing the trap-gate type.
ExceptionGateTypeAttr_Trap(privilege) ==
    BitOr(BitOr(IDT_FLAG_PRESENT, Uint8(BitAnd(3, privilege) * 32)),
          IDT_TYPE_TRAP_GATE)

ExceptionGateTypeAttr(privilege) ==
    BitOr(BitOr(IDT_FLAG_PRESENT, Uint8(BitAnd(3, privilege) * 32)),
          IDT_TYPE_INTERRUPT_GATE)

\* The value the store to `field` writes; kind is "interrupt" for
\* createInterruptGate and "exception" for createExceptionGate.
StoredValue(kind, field, privilege, offset) ==
    CASE field = "zero"      -> 0
      [] field = "offset3"   -> GateOffset3(offset)
      [] field = "offset2"   -> GateOffset2(offset)
      [] field = "offset1"   -> GateOffset1(offset)
      [] field = "selector"  -> IDT_SELECTOR
      [] field = "ist"       -> 0
      [] field = "type_attr" -> IF kind = "interrupt"
                                THEN InterruptGateTypeAttr(privilege)
                                ELSE ExceptionGateTypeAttr(privilege)

\* One field store of a gate call.
StoreField(table, kind, gate, privilege, offset, k) ==
    [table EXCEPT ![gate][StoreOrder[k]] =
        StoredValue(kind, StoreOrder[k], privilege, offset)]

RECURSIVE StoreFields(_, _, _, _, _, _)
StoreFields(table, kind, gate, privilege, offset, k) ==
    IF k > Len(StoreOrder) THEN table
    ELSE StoreFields(StoreField(table, kind, gate, privilege, offset, k),
                     kind, gate, privilege, offset, k + 1)

createInterruptGate(table, gate, privilege, offset) ==
    StoreFields(table, "interrupt", gate, privilege, offset, 1)

createExceptionGate(table, gate, privilege, offset) ==
    StoreFields(table, "exception", gate, privilege, offset, 1)

\* The pointer debugGate reassembles from a descriptor.
DecodeOffset(idte) ==
    Or64(Or64(FromUint16(idte.offset1), Shl64(FromUint16(idte.offset2), 16)),
         Shl64(FromUint32(idte.offset3), 32))

\* The six lines debugGate prints, each a format and its argument.
debugGate(table, gate) ==
    LET idte == table[gate]
        ptr == DecodeOffset(idte)
    IN  << <<"interrupt handler %u8d:\n", gate>>,
           <<"  offset:   %p\n", ptr>>,
           <<"  selector: %u16b\n", idte.selector>>,
           <<"  ist:      %u8b\n", idte.ist>>,
           <<"  type:     %u8b\n", idte.type_attr>>,
           <<"  reserved: %u32b\n", idte.zero>> >>

(***************************************************************************)
(* The interrupt handlers.  A body is the sequence of the handler's        *)
(* effects in program order:                                               *)
(*   <<"printk", format, argument>>   std_Printk(format, argument)         *)
(*   <<"out8", port, value>>          port_Out8(port, value)               *)
(*   <<"in8", port, local>>           local = port_In8(port)               *)
(*   <<"inc", "time_Ticker", 1>>      time_Ticker++                        *)
(*   <<"if_second", ...>>             if (time_Ticker%1024 == 0) { next }  *)
(*   <<"if_and", local, mask>>        if (local & mask) { next }           *)
(* error says whether the handler takes the error code as second argument. *)
(***************************************************************************)

Handlers == <<
    \* handleUnsupportedInterrupt, lines 134-142
    [name |-> "handleUnsupportedInterrupt", error |-> FALSE, body |-> <<
        <<"printk", "unsupported interrupt:\n", "none">>,
        <<"printk", "  ip:    %u64x\n", "ip">>,
        <<"printk", "  cs:    %u64x\n", "cs">>,
        <<"printk", "  flags: %u64x\n", "flags">>,
        <<"printk", "  sp:    %u64x\n", "sp">>,
        <<"printk", "  ss:    %u64x\n", "ss">> >>],
    \* handleDivideException, lines 145-149
    [name |-> "handleDivideException", error |-> FALSE, body |-> <<
        <<"printk", "divide by zero exception\n", "none">> >>],
    \* handleDebugException, lines 152-156
    [name |-> "handleDebugException", error |-> FALSE, body |-> <<
        <<"printk", "debug exception\n", "none">> >>],
    \* handleNMIInterrupt, lines 159-163
    [name |-> "handleNMIInterrupt", error |-> FALSE, body |-> <<
        <<"printk", "NMI interrupt\n", "none">> >>],
    \* handleBreakpointInterrupt, lines 166-170
    [name |-> "handleBreakpointInterrupt", error |-> FALSE, body |-> <<
        <<"printk", "breakpoint interrupt\n", "none">> >>],
    \* handleOverflowInterrupt, lines 173-177
    [name |-> "handleOverflowInterrupt", error |-> FALSE, body |-> <<
        <<"printk", "overflow interrupt\n", "none">> >>],
    \* handleBoundRangeInterrupt, lines 180-184
    [name |-> "handleBoundRangeInterrupt", error |-> FALSE, body |-> <<
        <<"printk", "bound range interrupt\n", "none">> >>],
    \* handleInvalidOpcodeInterrupt, lines 187-191
    [name |-> "handleInvalidOpcodeInterrupt", error |-> FALSE, body |-> <<
        <<"printk", "invalid opcode interrupt\n", "none">> >>],
    \* handleDeviceNotAvailableInterrupt, lines 194-198
    [name |-> "handleDeviceNotAvailableInterrupt", error |-> FALSE, body |-> <<
        <<"printk", "device not available interrupt\n", "none">> >>],
    \* handleDoubleFaultException, lines 201-205
    [name |-> "handleDoubleFaultException", error |-> TRUE, body |-> <<
        <<"printk", "double fault exception (error %u64x)\n", "error">> >>],
    \* handleCoprocessorSegmentOverrunInterrupt, lines 208-212
    [name |-> "handleCoprocessorSegmentOverrunInterrupt", error |-> FALSE, body |-> <<
        <<"printk", "coprocessor segment overrun interrupt\n", "none">> >>],
    \* handleInvalidTSSException, lines 215-219
    [name |-> "handleInvalidTSSException", error |-> TRUE, body |-> <<
        <<"printk", "invalid TSS exception (error %u64x)\n", "error">> >>],
    \* handleSegmentNotPresentException, lines 222-226
    [name |-> "handleSegmentNotPresentException", error |-> TRUE, body |-> <<
        <<"printk", "segment not present exception (error %u64x)\n", "error">> >>],
    \* handleStackSegmentFaultException, lines 229-233
    [name |-> "handleStackSegmentFaultException", error |-> TRUE, body |-> <<
        <<"printk", "stack segment fault exception (error %u64x)\n", "error">> >>],
    \* handleGeneralProtectionException, lines 236-240
    [name |-> "handleGeneralProtectionException", error |-> TRUE, body |-> <<
        <<"printk", "general protection exception (error %u64x)\n", "error">> >>],
    \* handlePageFaultException, lines 243-247
    [name |-> "handlePageFaultException", error |-> TRUE, body |-> <<
        <<"printk", "page fault exception (error %u64x)\n", "error">> >>],
    \* handleMathFaultInterrupt, lines 250-254
    [name |-> "handleMathFaultInterrupt", error |-> FALSE, body |-> <<
        <<"printk", "math fault interrupt\n", "none">> >>],
    \* handleAlignmentCheckException, lines 257-261
    [name |-> "handleAlignmentCheckException", error |-> TRUE, body |-> <<
        <<"printk", "alignment check interrupt (error %u64x)\n", "error">> >>],
    \* handleMachineCheckInterrupt, lines 264-268
    [name |-> "handleMachineCheckInterrupt", error |-> FALSE, body |-> <<
        <<"printk", "machine check interrupt\n", "none">> >>],
    \* handleSIMDFloatingPointExceptionInterrupt, lines 271-275
    [name |-> "handleSIMDFloatingPointExceptionInterrupt", error |-> FALSE, body |-> <<
        <<"printk", "SIMD floating point exception interrupt\n", "none">> >>],
    \* handleVirtualizationExceptionInterrupt, lines 278-282
    [name |-> "handleVirtualizationExceptionInterrupt", error |-> FALSE, body |-> <<
        <<"printk", "virtualization exception interrupt\n", "none">> >>],
    \* handleControlProtectionException, lines 285-289
    [name |-> "handleControlProtectionException", error |-> TRUE, body |-> <<
        <<"printk", "control protection exception interrupt (error %u64x)\n", "error">> >>],
    \* handleTimerInterrupt, lines 292-299
    [name |-> "handleTimerInterrupt", error |-> FALSE, body |-> <<
        <<"printk", "timer interrupt\n", "none">>,
        <<"out8", 32, 32>> >>],
    \* handleKeyboardInterrupt, lines 302-313
    [name |-> "handleKeyboardInterrupt", error |-> FALSE, body |-> <<
        <<"in8", 96, "scanCode">>,
        <<"printk", "keyboard interrupt: %u8x\n", "scanCode">>,
        <<"in8", 96, "none">>,
        <<"out8", 32, 32>> >>],
    \* handleCascadeInterrupt, lines 316-323
    [name |-> "handleCascadeInterrupt", error |-> FALSE, body |-> <<
        <<"printk", "cascade interrupt\n", "none">>,
        <<"out8", 32, 32>> >>],
    \* handleCOM2Interrupt, lines 326-333
    [name |-> "handleCOM2Interrupt", error |-> FALSE, body |-> <<
        <<"printk", "COM2 interrupt\n", "none">>,
        <<"out8", 32, 32>> >>],
    \* handleCOM1Interrupt, lines 336-343
    [name |-> "handleCOM1Interrupt", error |-> FALSE, body |-> <<
        <<"printk", "COM1 interrupt\n", "none">>,
        <<"out8", 32, 32>> >>],
    \* handleLPT2Interrupt, lines 346-353
    [name |-> "handleLPT2Interrupt", error |-> FALSE, body |-> <<
        <<"printk", "LPT2 interrupt\n", "none">>,
        <<"out8", 32, 32>> >>],
    \* handleFloppyDiskInterrupt, lines 356-363
    [name |-> "handleFloppyDiskInterrupt", error |-> FALSE, body |-> <<
        <<"printk", "floppy disk interrupt\n", "none">>,
        <<"out8", 32, 32>> >>],
    \* handleLPT1Interrupt, lines 366-379
    [name |-> "handleLPT1Interrupt", error |-> FALSE, body |-> <<
        <<"printk", "LPT1 interrupt\n", "none">>,
        <<"out8", 32, 11>>,
        <<"in8", 32, "irr">>,
        <<"if_and", "irr", 128>>,
        <<"out8", 32, 32>> >>],
    \* handleClockInterrupt, lines 382-398
    [name |-> "handleClockInterrupt", error |-> FALSE, body |-> <<
        <<"out8", 112, 12>>,
        <<"in8", 113, "none">>,
        <<"inc", "time_Ticker", 1>>,
        <<"if_second", "time_Ticker", 1>>,
        <<"printk", "\ruptime: %u64ds", "uptime">>,
        <<"out8", 160, 32>>,
        <<"out8", 32, 32>> >>],
    \* handleIRQ9Interrupt, lines 401-409
    [name |-> "handleIRQ9Interrupt", error |-> FALSE, body |-> <<
        <<"printk", "IRQ 9 interrupt\n", "none">>,
        <<"out8", 160, 32>>,
        <<"out8", 32, 32>> >>],
    \* handleIRQ10Interrupt, lines 412-420
    [name |-> "handleIRQ10Interrupt", error |-> FALSE, body |-> <<
        <<"printk", "IRQ 10 interrupt\n", "none">>,
        <<"out8", 160, 32>>,
        <<"out8", 32, 32>> >>],
    \* handleIRQ11Interrupt, lines 423-431
    [name |-> "handleIRQ11Interrupt", error |-> FALSE, body |-> <<
        <<"printk", "IRQ 11 interrupt\n", "none">>,
        <<"out8", 160, 32>>,
        <<"out8", 32, 32>> >>],
    \* handlePS2MouseInterrupt, lines 434-442
    [name |-> "handlePS2MouseInterrupt", error |-> FALSE, body |-> <<
        <<"printk", "PS/2 mouse interrupt\n", "none">>,
        <<"out8", 160, 32>>,
        <<"out8", 32, 32>> >>],
    \* handleCoprocessorInterrupt, lines 445-453
    [name |-> "handleCoprocessorInterrupt", error |-> FALSE, body |-> <<
        <<"printk", "Coprocessor interrupt\n", "none">>,
        <<"out8", 160, 32>>,
        <<"out8", 32, 32>> >>],
    \* handlePrimaryATAInterrupt, lines 456-464
    [name |-> "handlePrimaryATAInterrupt", error |-> FALSE, body |-> <<
        <<"printk", "primary ATA interrupt\n", "none">>,
        <<"out8", 160, 32>>,
        <<"out8", 32, 32>> >>],
    \* handleSecondaryATAInterrupt, lines 467-475
    [name |-> "handleSecondaryATAInterrupt", error |-> FALSE, body |-> <<
        <<"printk", "secondary ATA interrupt\n", "none">>,
        <<"out8", 160, 32>>,
        <<"out8", 32, 32>> >>],
    \* handleSpuriousInterrupt, lines 478-482
    [name |-> "handleSpuriousInterrupt", error |-> FALSE, body |-> <<
        <<"printk", "spurious interrupt\n", "none">> >>]
>>

HandlerIds == 1..Len(Handlers)

\* The fallback acknowledging the primary controller like an IRQ handler.
Body_FallbackAcks(k) ==
    IF Handlers[k].name = "handleUnsupportedInterrupt"
    THEN Append(Handlers[k].body, <<"out8", 32, 32>>)
    ELSE Handlers[k].body

\* The page fault handler printing its name without the error code.
Body_PageFaultNoError(k) ==
    IF Handlers[k].name = "handlePageFaultException"
    THEN << <<"printk", "page fault exception\n", "none">> >>
    ELSE Handlers[k].body

\* The last secondary-controller handler acknowledging the primary only.
Body_SecondaryATAPrimaryOnly(k) ==
    IF Handlers[k].name = "handleSecondaryATAInterrupt"
    THEN SelectSeq(Handlers[k].body, LAMBDA op : op[1] # "out8" \/ op[2] # 160)
    ELSE Handlers[k].body

\* The keyboard handler acknowledging before it reads the data register.
Body_KeyboardAcksFirst(k) ==
    IF Handlers[k].name = "handleKeyboardInterrupt"
    THEN << <<"out8", 32, 32>>,
            <<"in8", 96, "scanCode">>,
            <<"printk", "keyboard interrupt: %u8x\n", "scanCode">>,
            <<"in8", 96, "none">> >>
    ELSE Handlers[k].body

\* The LPT1 handler acknowledging whatever the in-service register holds.
Body_LPT1AlwaysAcks(k) ==
    IF Handlers[k].name = "handleLPT1Interrupt"
    THEN SelectSeq(Handlers[k].body, LAMBDA op : op[1] # "if_and")
    ELSE Handlers[k].body

\* The statements of handler k, and whether it takes the error code.
Body(k) == Handlers[k].body

TakesError(k) == Handlers[k].error

HandlerId(name) == CHOOSE k \in HandlerIds : Handlers[k].name = name

(***************************************************************************)
(* int_Init's calls after the fallback loop: the kind of gate call, the    *)
(* gate, the privilege and the handler.                                    *)
(***************************************************************************)

DedicatedCalls == <<
    <<"interrupt", 0, 0, "handleDivideException">>,
    <<"interrupt", 1, 0, "handleDebugException">>,
    <<"interrupt", 2, 0, "handleNMIInterrupt">>,
    <<"interrupt", 3, 0, "handleBreakpointInterrupt">>,
    <<"interrupt", 4, 0, "handleOverflowInterrupt">>,
    <<"interrupt", 5, 0, "handleBoundRangeInterrupt">>,
    <<"interrupt", 6, 0, "handleInvalidOpcodeInterrupt">>,
    <<"interrupt", 7, 0, "handleDeviceNotAvailableInterrupt">>,
    <<"exception", 8, 0, "handleDoubleFaultException">>,
    <<"interrupt", 9, 0, "handleCoprocessorSegmentOverrunInterrupt">>,
    <<"exception", 10, 0, "handleInvalidTSSException">>,
    <<"exception", 11, 0, "handleSegmentNotPresentException">>,
    <<"exception", 12, 0, "handleStackSegmentFaultException">>,
    <<"exception", 13, 0, "handleGeneralProtectionException">>,
    <<"exception", 14, 0, "handlePageFaultException">>,
    <<"interrupt", 16, 0, "handleMathFaultInterrupt">>,
    <<"exception", 17, 0, "handleAlignmentCheckException">>,
    <<"interrupt", 18, 0, "handleMachineCheckInterrupt">>,
    <<"interrupt", 19, 0, "handleSIMDFloatingPointExceptionInterrupt">>,
    <<"interrupt", 20, 0, "handleVirtualizationExceptionInterrupt">>,
    <<"exception", 21, 0, "handleControlProtectionException">>,
    <<"interrupt", 32, 0, "handleTimerInterrupt">>,
    <<"interrupt", 33, 0, "handleKeyboardInterrupt">>,
    <<"interrupt", 34, 0, "handleCascadeInterrupt">>,
    <<"interrupt", 35, 0, "handleCOM2Interrupt">>,
    <<"interrupt", 36, 0, "handleCOM1Interrupt">>,
    <<"interrupt", 37, 0, "handleLPT2Interrupt">>,
    <<"interrupt", 38, 0, "handleFloppyDiskInterrupt">>,
    <<"interrupt", 39, 0, "handleLPT1Interrupt">>,
    <<"interrupt", 40, 0, "handleClockInterrupt">>,
    <<"interrupt", 41, 0, "handleIRQ9Interrupt">>,
    <<"interrupt", 42, 0, "handleIRQ10Interrupt">>,
    <<"interrupt", 43, 0, "handleIRQ11Interrupt">>,
    <<"interrupt", 44, 0, "handlePS2MouseInterrupt">>,
    <<"interrupt", 45, 0, "handleCoprocessorInterrupt">>,
    <<"interrupt", 46, 0, "handlePrimaryATAInterrupt">>,
    <<"interrupt", 47, 0, "handleSecondaryATAInterrupt">>,
    <<"interrupt", 255, 0, "handleSpuriousInterrupt">>
>>

\* for (i = 0; i < 256; i++) createInterruptGate((uint8)i, 0, handleUnsupportedInterrupt)
FallbackCalls ==
    [n \in 1..256 |-> <<"interrupt", Uint8(n - 1), 0, "handleUnsupportedInterrupt">>]

\* int_Init with the fallback loop left out.
InitCalls_NoFallback == DedicatedCalls

\* int_Init installing the machine check handler one vector early.
InitCalls_Vector17 ==
    FallbackCalls \o
    [n \in 1..Len(DedicatedCalls) |->
        IF DedicatedCalls[n][2] = 17
        THEN <<"interrupt", 17, 0, "handleMachineCheckInterrupt">>
        ELSE DedicatedCalls[n]]

InitCalls == FallbackCalls \o DedicatedCalls

(***************************************************************************)
(* Where the handlers are.  The linker lays the handlers out one after the *)
(* other in the order of their definitions; the code fixes neither the     *)
(* load address nor the handlers' size, so the model starts from each of   *)
(* a few placements: low memory within one 64 KiB block, and a higher-half *)
(* placement that straddles a 64 KiB boundary.                             *)
(***************************************************************************)

Layouts ==
    { [base |-> <<32768, 16, 0, 0>>, size |-> 64],          \* 0x0000000000108000
      [base |-> <<65408, 16, 32768, 65535>>, size |-> 64] } \* 0xFFFF80000010FF80

\* a + n for 0 <= n < 2^16, modulo 2^64.
Add64(a, n) ==
    LET s1 == a[1] + n
        s2 == a[2] + (s1 \div 65536)
        s3 == a[3] + (s2 \div 65536)
        s4 == a[4] + (s3 \div 65536)
    IN  <<s1 % 65536, s2 % 65536, s3 % 65536, s4 % 65536>>

\* (uintptr)handler
HandlerAddress(lay, k) == Add64(lay.base, lay.size * (k - 1))

\* The handler whose entry point is addr, or 0 when addr is no entry point.
HandlerAt(lay, addr) ==
    IF \E k \in HandlerIds : HandlerAddress(lay, k) = addr
    THEN CHOOSE k \in HandlerIds : HandlerAddress(lay, k) = addr
    ELSE 0

(***************************************************************************)
(* The processor and the interrupt controllers, as far as the code relies  *)
(* on them.                                                                *)
(***************************************************************************)

\* The vectors for which the processor pushes an error code (table 6-1 of
\* the manual int_Init cites).
ErrorCodeVectors == {8, 10, 11, 12, 13, 14, 17, 21}

NMIVector == 2

ExceptionVectors == (0..31) \ {NMIVector}

ExternalVectors == 32..255

\* IRQ 0-15 arrive as vectors 32-47.
IRQBase == 32

GatePresent(idte) == BitAnd(idte.type_attr, IDT_FLAG_PRESENT) # 0

GateType(idte) == BitAnd(idte.type_attr, 15)

\* A set bit in a mask register disables the line; the secondary
\* controller's lines reach the processor through line 2 of the primary.
Unmasked(masks, v) ==
    LET irq == v - IRQBase
    IN  IF irq < 0 \/ irq > 15 THEN TRUE
        ELSE IF irq < 8 THEN BitAnd(masks.primary, 2 ^ irq) = 0
        ELSE /\ BitAnd(masks.secondary, 2 ^ (irq - 8)) = 0
             /\ BitAnd(masks.primary, 4) = 0

\* port_Out8 to a mask register.
port_Out8(masks, port, v) ==
    IF port = 33 THEN [masks EXCEPT !.primary = v]
    ELSE IF port = 161 THEN [masks EXCEPT !.secondary = v]
    ELSE masks

RFLAGS_IF == 512

\* The values a device register may hold when a handler reads it.
InBytes == {0, 28, 128}

ErrorCodes == {0, 4}

NoArg == [kind |-> "none", gate |-> 0, privilege |-> 0, offset |-> Zero64]

At(place) == [at |-> place, call |-> 0, store |-> 0]

Idle == stack = <<>>

Top == stack[Len(stack)]

Running == halted = "no"

\* The interruptFrame the processor pushes, the handler's locals and what
\* the invocation has printed and done on the ports so far.
NewFrame(v, via, h, pushed, err) ==
    [vector |-> v, via |-> via, handler |-> h, ip |-> 1,
     frame |-> [ip |-> IF Idle THEN 0 ELSE Top.handler,
                cs |-> IDT_SELECTOR,
                flags |-> 2 + (IF intFlag THEN RFLAGS_IF ELSE 0),
                sp |-> Len(stack),
                ss |-> 0],
     pushed |-> pushed, error |-> err,
     scanCode |-> 0, irr |-> 0,
     out |-> <<>>, io |-> <<>>]

\* The processor takes vector v through its gate.
Enter(v, via, pushed, err) ==
    LET idte == idt[v]
        h == HandlerAt(layout, DecodeOffset(idte))
    IN  /\ UNCHANGED <<idt, pc, imr, time_Ticker, layout, arg, out, memVars, libVars>>
        /\ IF ~GatePresent(idte)
           THEN halted' = "gate_not_present" /\ UNCHANGED <<stack, intFlag>>
           ELSE IF GateType(idte) \notin {IDT_TYPE_INTERRUPT_GATE, IDT_TYPE_TRAP_GATE}
           THEN halted' = "bad_gate_type" /\ UNCHANGED <<stack, intFlag>>
           ELSE IF h = 0
           THEN halted' = "wild_jump" /\ UNCHANGED <<stack, intFlag>>
           ELSE /\ stack' = Append(stack, NewFrame(v, via, h, pushed, err))
                /\ intFlag' = IF GateType(idte) = IDT_TYPE_INTERRUPT_GATE
                              THEN FALSE ELSE intFlag
                /\ UNCHANGED halted

(***************************************************************************)
(* int_Init, one store or instruction per step.                            *)
(***************************************************************************)

\* The number of clock interrupts the model lets arrive.
MaxTicks == 3

TICKS_PER_SECOND == 1024

\* time_Ticker is defined outside int.c; the model starts from boot and
\* from shortly before a second boundary.
TickerStarts == {0, TICKS_PER_SECOND - 2}

Init ==
    /\ idt = [v \in Vectors |-> BlankGate]
    /\ intFlag \in BOOLEAN
    /\ pc = At("cli")
    /\ imr = [primary |-> 255, secondary |-> 255]
    /\ stack = <<>>
    /\ time_Ticker \in TickerStarts
    /\ layout \in Layouts
    /\ halted = "no"
    /\ arg = NoArg
    /\ out = <<>>
    /\ tables = <<>> /\ mm = <<>> /\ reads = {}
    /\ LibIdle

\* int_Init without the cli.
Cli_Missing ==
    /\ Running /\ Idle /\ pc.at = "cli"
    /\ pc' = [at |-> "gate", call |-> 1, store |-> 1]
    /\ UNCHANGED <<idt, intFlag, imr, stack, time_Ticker, layout, halted, arg, out, memVars, libVars>>

\* __asm__ ("cli")
Cli ==
    /\ Running /\ Idle /\ pc.at = "cli"
    /\ intFlag' = FALSE
    /\ pc' = [at |-> "gate", call |-> 1, store |-> 1]
    /\ UNCHANGED <<idt, imr, stack, time_Ticker, layout, halted, arg, out, memVars, libVars>>

\* The position after store k of call c.
AfterStore(c, k) ==
    IF k < Len(StoreOrder) THEN [at |-> "gate", call |-> c, store |-> k + 1]
    ELSE IF c < Len(InitCalls) THEN [at |-> "gate", call |-> c + 1, store |-> 1]
    ELSE At("mask_primary")

\* One field store of one createInterruptGate or createExceptionGate call.
GateStore ==
    /\ Running /\ Idle /\ pc.at = "gate"
    /\ LET c == InitCalls[pc.call]
       IN  idt' = StoreField(idt, c[1], c[2], c[3],
                             HandlerAddress(layout, HandlerId(c[4])), pc.store)
    /\ pc' = AfterStore(pc.call, pc.store)
    /\ UNCHANGED <<intFlag, imr, stack, time_Ticker, layout, halted, arg, out, memVars, libVars>>

\* port_Out8(0x21, 1)
MaskPrimary ==
    /\ Running /\ Idle /\ pc.at = "mask_primary"
    /\ imr' = port_Out8(imr, 33, 1)
    /\ pc' = At("mask_secondary")
    /\ UNCHANGED <<idt, intFlag, stack, time_Ticker, layout, halted, arg, out, memVars, libVars>>

\* port_Out8(0xa1, 0)
MaskSecondary ==
    /\ Running /\ Idle /\ pc.at = "mask_secondary"
    /\ imr' = port_Out8(imr, 161, 0)
    /\ pc' = At("sti")
    /\ UNCHANGED <<idt, intFlag, stack, time_Ticker, layout, halted, arg, out, memVars, libVars>>

\* __asm__ ("sti")
Sti ==
    /\ Running /\ Idle /\ pc.at = "sti"
    /\ intFlag' = TRUE
    /\ pc' = At("done")
    /\ UNCHANGED <<idt, imr, stack, time_Ticker, layout, halted, arg, out, memVars, libVars>>

\* debugGate(gate), called by the kernel once int_Init has returned.  Its
\* body is one step: an interrupt is taken before or after it.
DebugGateCall ==
    /\ Running /\ Idle /\ pc.at = "done"
    /\ \E gate \in Vectors : out' = debugGate(idt, gate)
    /\ pc' = At("debugGate")
    /\ UNCHANGED <<idt, intFlag, imr, stack, time_Ticker, layout, halted, arg, memVars, libVars>>

DebugGateReturn ==
    /\ Running /\ Idle /\ pc.at = "debugGate"
    /\ out' = <<>>
    /\ pc' = At("done")
    /\ UNCHANGED <<idt, intFlag, imr, stack, time_Ticker, layout, halted, arg, memVars, libVars>>

(***************************************************************************)
(* Interrupt delivery.                                                     *)
(***************************************************************************)

TicksLeft ==
    \E s \in TickerStarts : s <= time_Ticker /\ time_Ticker < s + MaxTicks

\* A maskable interrupt: taken only with RFLAGS.IF set and, for the lines
\* of the 8259s, only when the line is unmasked.
DeliverExternal ==
    /\ Running /\ pc.at # "debugGate"
    /\ intFlag
    /\ \E v \in ExternalVectors :
        /\ Unmasked(imr, v)
        /\ v = IRQBase + 8 => TicksLeft
        /\ Enter(v, "external", FALSE, 0)

\* The non-maskable interrupt: taken whatever RFLAGS.IF is; the processor
\* holds further NMIs back until the handler's iretq.
DeliverNMI ==
    /\ Running /\ pc.at # "debugGate"
    /\ \A n \in 1..Len(stack) : stack[n].via # "nmi"
    /\ Enter(NMIVector, "nmi", FALSE, 0)

\* An exception raised by the kernel's code after int_Init.
RaiseException ==
    /\ Running /\ Idle /\ pc.at = "done"
    /\ \E v \in ExceptionVectors :
        IF v \in ErrorCodeVectors
        THEN \E err \in ErrorCodes : Enter(v, "exception", TRUE, err)
        ELSE Enter(v, "exception", FALSE, 0)

(***************************************************************************)
(* The handlers, one effect per step.                                      *)
(***************************************************************************)

InHandler == Running /\ ~Idle /\ Top.ip <= Len(Body(Top.handler))

Op == Body(Top.handler)[Top.ip]

SetTop(f) == stack' = [stack EXCEPT ![Len(stack)] = f]

\* The argument a std_Printk call of the innermost handler passes.
ArgValue(a) ==
    CASE a = "ip"       -> Top.frame.ip
      [] a = "cs"       -> Top.frame.cs
      [] a = "flags"    -> Top.frame.flags
      [] a = "sp"       -> Top.frame.sp
      [] a = "ss"       -> Top.frame.ss
      [] a = "error"    -> Top.error
      [] a = "scanCode" -> Top.scanCode
      [] a = "uptime"   -> time_Ticker \div TICKS_PER_SECOND

PrintedLine(fmt, a) == IF a = "none" THEN <<fmt>> ELSE <<fmt, ArgValue(a)>>

HandlerPrintk ==
    /\ InHandler /\ Op[1] = "printk"
    /\ SetTop([Top EXCEPT !.ip = @ + 1,
                          !.out = Append(@, PrintedLine(Op[2], Op[3]))])
    /\ UNCHANGED <<idt, intFlag, pc, imr, time_Ticker, layout, halted, arg, out, memVars, libVars>>

HandlerOut8 ==
    /\ InHandler /\ Op[1] = "out8"
    /\ SetTop([Top EXCEPT !.ip = @ + 1,
                          !.io = Append(@, <<"out8", Op[2], Op[3]>>)])
    /\ imr' = port_Out8(imr, Op[2], Op[3])
    /\ UNCHANGED <<idt, intFlag, pc, time_Ticker, layout, halted, arg, out, memVars, libVars>>

HandlerIn8 ==
    /\ InHandler /\ Op[1] = "in8"
    /\ \E b \in InBytes :
        SetTop([Top EXCEPT !.ip = @ + 1,
                           !.io = Append(@, <<"in8", Op[2], b>>),
                           !.scanCode = IF Op[3] = "scanCode" THEN b ELSE @,
                           !.irr = IF Op[3] = "irr" THEN b ELSE @])
    /\ UNCHANGED <<idt, intFlag, pc, imr, time_Ticker, layout, halted, arg, out, memVars, libVars>>

\* time_Ticker++
HandlerInc ==
    /\ InHandler /\ Op[1] = "inc"
    /\ time_Ticker' = time_Ticker + 1
    /\ SetTop([Top EXCEPT !.ip = @ + 1])
    /\ UNCHANGED <<idt, intFlag, pc, imr, layout, halted, arg, out, memVars, libVars>>

\* An if that goes back to the statement before it until its condition
\* holds: a handler waiting for the device.
HandlerIf_Retry ==
    /\ InHandler /\ Op[1] \in {"if_second", "if_and"}
    /\ LET taken == IF Op[1] = "if_second"
                    THEN time_Ticker % TICKS_PER_SECOND = 0
                    ELSE BitAnd(Top.irr, Op[3]) # 0
       IN  SetTop([Top EXCEPT !.ip = IF taken \/ Op[1] = "if_second" THEN @ + 1 ELSE @ - 1])
    /\ UNCHANGED <<idt, intFlag, pc, imr, time_Ticker, layout, halted, arg, out, memVars, libVars>>

\* An if whose body is the next statement.
HandlerIf ==
    /\ InHandler /\ Op[1] \in {"if_second", "if_and"}
    /\ LET taken == IF Op[1] = "if_second"
                    THEN time_Ticker % TICKS_PER_SECOND = 0
                    ELSE BitAnd(Top.irr, Op[3]) # 0
       IN  SetTop([Top EXCEPT !.ip = IF taken THEN @ + 1 ELSE @ + 2])
    /\ UNCHANGED <<idt, intFlag, pc, imr, time_Ticker, layout, halted, arg, out, memVars, libVars>>

\* The iretq the compiler ends an __attribute__((interrupt)) function
\* with, after dropping the error code when the function takes one.  It
\* restores RFLAGS from the frame; when the handler's convention is not
\* the one the processor used, it pops the wrong words.
HandlerReturn ==
    /\ Running /\ ~Idle /\ Top.ip > Len(Body(Top.handler))
    /\ stack' = SubSeq(stack, 1, Len(stack) - 1)
    /\ IF TakesError(Top.handler) = Top.pushed
       THEN /\ intFlag' = (BitAnd(Top.frame.flags, RFLAGS_IF) # 0)
            /\ UNCHANGED halted
       ELSE /\ halted' = "bad_iretq"
            /\ UNCHANGED intFlag
    /\ UNCHANGED <<idt, pc, imr, time_Ticker, layout, arg, out, memVars, libVars>>

Next ==
    \/ Cli
    \/ GateStore
    \/ MaskPrimary
    \/ MaskSecondary
    \/ Sti
    \/ DebugGateCall
    \/ DebugGateReturn
    \/ DeliverExternal
    \/ DeliverNMI
    \/ RaiseException
    \/ HandlerPrintk
    \/ HandlerOut8
    \/ HandlerIn8
    \/ HandlerInc
    \/ HandlerIf
    \/ HandlerReturn

Spec == Init /\ [][Next]_vars

\* The processor executing the next statement of the innermost handler.
HandlerStep ==
    \/ HandlerPrintk
    \/ HandlerOut8
    \/ HandlerIn8
    \/ HandlerInc
    \/ HandlerIf
    \/ HandlerReturn

\* The same for a handler that is not itself interrupted.
OuterStep == Len(stack) = 1 /\ HandlerStep

\* The processor never stops executing the innermost handler, and
\* non-maskable interrupts do not arrive so densely that the handler they
\* interrupt never executes a statement between two of them.  Termination
\* is checked from boot with the kernel at its first address
\* and time_Ticker shortly before a second boundary, so that the clock
\* handler takes both branches.
InitLive ==
    /\ Init
    /\ layout.base = <<32768, 16, 0, 0>>
    /\ time_Ticker = TICKS_PER_SECOND - 2

SpecLive == InitLive /\ [][Next]_vars /\ WF_vars(HandlerStep) /\ SF_vars(OuterStep)

(***************************************************************************)
(* The codec on its own: one gate call with arbitrary arguments on a blank *)
(* table, followed by debugGate of the same gate.                          *)
(***************************************************************************)

Uint8Values == 0..255

TestLimbs == {0, 1, 32768, 65535}

TestOffsets == {<<a, b, c, d>> : a \in {1, 65535}, b \in TestLimbs, c \in TestLimbs, d \in TestLimbs}

CornerOffsets == {<<1, 0, 0, 0>>, <<65535, 65535, 65535, 65535>>, <<65535, 32768, 1, 0>>}

CornerPrivileges == {0, 3}

TestGates == {0, 8, 255}

\* Every privilege with the corner offsets, every offset with the corner
\* privileges.
GateArgs ==
    { a \in [kind : {"interrupt", "exception"}, gate : TestGates,
             privilege : Uint8Values, offset : TestOffsets \cup CornerOffsets] :
        a.privilege \in CornerPrivileges \/ a.offset \in CornerOffsets }

InitGate ==
    /\ idt = [v \in Vectors |-> BlankGate]
    /\ intFlag = FALSE
    /\ pc = At("gate_call")
    /\ imr = [primary |-> 255, secondary |-> 255]
    /\ stack = <<>>
    /\ time_Ticker = 0
    /\ layout = CHOOSE l \in Layouts : TRUE
    /\ halted = "no"
    /\ arg \in GateArgs
    /\ out = <<>>
    /\ tables = <<>> /\ mm = <<>> /\ reads = {}
    /\ LibIdle

CallCreateGate ==
    /\ pc.at = "gate_call"
    /\ idt' = IF arg.kind = "interrupt"
              THEN createInterruptGate(idt, arg.gate, arg.privilege, arg.offset)
              ELSE createExceptionGate(idt, arg.gate, arg.privilege, arg.offset)
    /\ pc' = At("gate_made")
    /\ UNCHANGED <<intFlag, imr, stack, time_Ticker, layout, halted, arg, out, memVars, libVars>>

CallDebugGate ==
    /\ pc.at = "gate_made"
    /\ out' = debugGate(idt, arg.gate)
    /\ pc' = At("gate_debugged")
    /\ UNCHANGED <<idt, intFlag, imr, stack, time_Ticker, layout, halted, arg, memVars, libVars>>

NextGate ==
    \/ CallCreateGate
    \/ CallDebugGate

SpecGate == InitGate /\ [][NextGate]_vars

(***************************************************************************)
(* Properties of the codec, checked under SpecGate.                        *)
(***************************************************************************)

GateWritten == pc.at \in {"gate_made", "gate_debugged"}

\* C1: whatever the gate, the privilege and the 64-bit handler address, the
\* pointer reassembled from the written descriptor as debugGate does
\* (offset1 | offset2<<16 | offset3<<32) is the handler address, and it is
\* the pointer debugGate prints.
C1_RoundTrip ==
    /\ GateWritten => DecodeOffset(idt[arg.gate]) = arg.offset
    /\ pc.at = "gate_debugged" => out[2] = <<"  offset:   %p\n", arg.offset>>

C1_Witness ==
    /\ pc.at = "gate_debugged"
    /\ arg.offset = <<65535, 32768, 1, 65535>>
    /\ arg.kind = "exception"
    /\ out[2][2] = <<65535, 32768, 1, 65535>>

\* C2: for every privilege p in 0..255 the written type_attr has bits 5-6
\* equal to p & 3, bit 7 set and bits 0-4 equal to the gate type whatever
\* p is; the call is made for every p.
C2_PrivilegeMasked ==
    /\ pc.at = "gate_call" => ENABLED CallCreateGate
    /\ GateWritten =>
        LET ta == idt[arg.gate].type_attr
        IN  /\ ta \in Uint8Values
            /\ (ta \div 32) % 4 = arg.privilege % 4
            /\ ta \div 128 = 1
            /\ ta % 32 = IDT_TYPE_INTERRUPT_GATE

C2_Witness ==
    /\ pc.at = "gate_made"
    /\ arg.privilege = 254
    /\ arg.kind = "interrupt"
    /\ idt[arg.gate].type_attr = 206

(***************************************************************************)
(* Properties of int_Init and of interrupt dispatch, checked under Spec.   *)
(***************************************************************************)

Fallback == HandlerId("handleUnsupportedInterrupt")

Clock == HandlerId("handleClockInterrupt")

\* int_Init has returned.
InitDone == pc.at \in {"done", "debugGate"}

\* The handler the processor reaches through slot v.
SlotHandler(v) == HandlerAt(layout, DecodeOffset(idt[v]))

Frames == {stack[n] : n \in 1..Len(stack)}

Finished(f) == f.ip > Len(Body(f.handler))

\* The kernel is between interrupts after int_Init.
IdleAfterInit == pc.at = "done" /\ Idle

\* Once int_Init has returned no step writes the table, so what holds of
\* the table when the kernel is idle after int_Init holds of it from then on.
TableFrozen == InitDone => idt' = idt

\* C3: after int_Init every one of the 256 descriptors is a present
\* interrupt gate of privilege 0 (type_attr 0x8E) with selector 0x8, IST 0
\* and reserved word 0, whichever kind of call installed it.
C3_Gates ==
    IdleAfterInit =>
        \A v \in Vectors :
            /\ idt[v].type_attr = 142
            /\ idt[v].selector = 8
            /\ idt[v].ist = 0
            /\ idt[v].zero = 0

C3_AllInterruptGates == []C3_Gates /\ [][TableFrozen]_vars

C3_Witness ==
    /\ pc.at = "done" /\ Idle
    /\ TakesError(SlotHandler(8)) /\ idt[8].type_attr = 142
    /\ ~TakesError(SlotHandler(0)) /\ idt[0].type_attr = 142

\* The vectors the specification lists as having a dedicated handler.
ListedVectors == (0..14) \cup (16..21) \cup {32, 33, 34, 40, 255}

\* The vectors int_Init gives a dedicated handler.
DedicatedVectors == (0..14) \cup (16..21) \cup (32..47) \cup {255}

\* C4 as claimed: after int_Init a slot holds a dedicated handler exactly
\* when its vector is one of 0-14, 16-21, 32, 33, 34, 40 and 255, and holds
\* the fallback's address otherwise.
C4_ListedVectorsOnly ==
    IdleAfterInit =>
        \A v \in Vectors :
            IF v \in ListedVectors
            THEN SlotHandler(v) \in HandlerIds \ {Fallback}
            ELSE DecodeOffset(idt[v]) = HandlerAddress(layout, Fallback)

\* C4 as amended: after int_Init a slot holds a dedicated handler exactly
\* when its vector is one of 0-14, 16-21, 32-47 and 255, each of these
\* vectors has a handler of its own, and every other slot holds the
\* fallback's address.
C4_Slots ==
    IdleAfterInit =>
        /\ \A v \in Vectors :
            IF v \in DedicatedVectors
            THEN SlotHandler(v) \in HandlerIds \ {Fallback}
            ELSE DecodeOffset(idt[v]) = HandlerAddress(layout, Fallback)
        /\ Cardinality({SlotHandler(v) : v \in DedicatedVectors})
             = Cardinality(DedicatedVectors)

C4_DedicatedVectors == []C4_Slots /\ [][TableFrozen]_vars

C4_Witness ==
    /\ pc.at = "done" /\ Idle
    /\ Handlers[SlotHandler(39)].name = "handleLPT1Interrupt"
    /\ SlotHandler(200) = Fallback

FrameFields(f) == <<f.frame.ip, f.frame.cs, f.frame.flags, f.frame.sp, f.frame.ss>>

\* C5, in every state: a vector without a dedicated handler runs the
\* fallback, which does no port I/O, has printed one line per statement
\* executed and, when finished, has printed the heading and the five frame
\* fields and can return.
C5_FallbackState ==
    \A f \in Frames :
        f.vector \notin DedicatedVectors =>
            /\ f.handler = Fallback
            /\ f.io = <<>>
            /\ Len(f.out) = f.ip - 1
            /\ Finished(f) =>
                /\ Len(f.out) = 6
                /\ \A n \in 1..5 : f.out[n + 1][2] = FrameFields(f)[n]

\* C5, in every step the fallback takes: the table, the mask registers,
\* time_Ticker and the kernel's position are unchanged, and its last step
\* pops exactly its own frame, restores the interrupted flags and leaves
\* the processor running.
C5_FallbackStep ==
    (/\ ~Idle
     /\ Top.vector \notin DedicatedVectors
     /\ Len(stack') <= Len(stack))
    => /\ idt' = idt /\ imr' = imr /\ time_Ticker' = time_Ticker /\ pc' = pc
       /\ halted' = "no"
       /\ Len(stack') < Len(stack) =>
            /\ stack' = SubSeq(stack, 1, Len(stack) - 1)
            /\ intFlag' = (Top.frame.flags >= RFLAGS_IF)

C5_FallbackOnly ==
    /\ [](C5_FallbackState /\ (~Idle /\ Finished(Top) => ENABLED HandlerReturn))
    /\ [][C5_FallbackStep]_vars

C5_Witness ==
    /\ Len(stack) = 1
    /\ Top.vector = 200
    /\ Finished(Top)
    /\ Len(Top.out) = 6
    /\ Top.out[4] = <<"  flags: %u64x\n", 514>>

\* C6: after int_Init the handler in slot v takes the error code exactly
\* when v is one of 8, 10, 11, 12, 13, 14, 17 and 21, the vectors for which
\* the processor pushes one; so no handler ever returns through a frame of
\* the other convention.
C6_Conventions ==
    /\ IdleAfterInit =>
        \A v \in Vectors :
            TakesError(SlotHandler(v)) <=> v \in {8, 10, 11, 12, 13, 14, 17, 21}
    /\ halted # "bad_iretq"
    /\ \A f \in Frames : InitDone => TakesError(f.handler) = f.pushed

C6_ErrorCodeConvention == []C6_Conventions /\ [][TableFrozen]_vars

C6_Witness ==
    /\ Len(stack) = 1
    /\ Top.vector = 17
    /\ Top.pushed /\ TakesError(Top.handler)
    /\ Finished(Top)

\* Slot v holds a whole descriptor of a handler.
SlotComplete(v) ==
    /\ idt[v].type_attr = 142
    /\ idt[v].selector = 8
    /\ SlotHandler(v) \in HandlerIds

\* C7: from the cli to the sti of int_Init the interrupt flag is clear;
\* when int_Init comes to the sti all 256 slots are complete and both mask
\* registers are written, and neither changes afterwards; the flag is set
\* after the cli only once int_Init has returned; every handler in progress
\* was entered through a complete slot that holds it, and every handler
\* entered for a maskable interrupt was entered after int_Init returned.
C7_Order ==
    /\ pc.at \in {"gate", "mask_primary", "mask_secondary", "sti"} => ~intFlag
    /\ (pc.at = "sti" /\ Idle) => \A v \in Vectors : SlotComplete(v)
    /\ pc.at \in {"sti", "done", "debugGate"} => imr = [primary |-> 1, secondary |-> 0]
    /\ (intFlag /\ pc.at # "cli") => InitDone
    /\ \A f \in Frames :
        /\ SlotComplete(f.vector)
        /\ f.handler = SlotHandler(f.vector)
        /\ f.via = "external" => InitDone

C7_Step == pc.at \in {"sti", "done", "debugGate"} => idt' = idt

C7_InterruptsOffWhileBuilding == []C7_Order /\ [][C7_Step]_vars

C7_Witness ==
    /\ pc.at = "done"
    /\ Len(stack) = 1
    /\ Top.via = "external" /\ Top.vector = 33
    /\ ~intFlag

\* The mask bit of an IRQ line is clear.
LineEnabled(irq) ==
    IF irq < 8 THEN (imr.primary \div (2 ^ irq)) % 2 = 0
    ELSE (imr.secondary \div (2 ^ (irq - 8))) % 2 = 0

\* C8: after int_Init only the keyboard line (IRQ 1) and the clock line
\* (IRQ 8) are unmasked.
C8_OnlyKeyboardAndClock ==
    InitDone => \A irq \in 0..15 : LineEnabled(irq) <=> irq \in {1, 8}

\* C9 as claimed: at most one handler is in progress at any time, and the
\* interrupt flag is clear while one is.
C9_NeverNested ==
    /\ Len(stack) <= 1
    /\ ~Idle => ~intFlag

\* C9 as amended, in every state: while a handler is in progress the
\* interrupt flag is clear, and a handler entered inside another one is
\* never that of a maskable interrupt: it is the handler of the
\* non-maskable interrupt, vector 2.
C9_OnlyNMINests ==
    /\ ~Idle => ~intFlag
    /\ \A n \in 2..Len(stack) : stack[n].via = "nmi" /\ stack[n].vector = NMIVector

\* C9 as amended, in every step: a step enters one handler, leaves the
\* innermost one or leaves the handlers in progress as they are, and a
\* maskable interrupt enters its handler only from Idle.
C9_Step ==
    \/ Len(stack') = Len(stack)
    \/ /\ Len(stack') = Len(stack) + 1
       /\ SubSeq(stack', 1, Len(stack)) = stack
       /\ stack'[Len(stack')].via = "external" => Idle
    \/ /\ Len(stack') = Len(stack) - 1
       /\ stack' = SubSeq(stack, 1, Len(stack) - 1)

C9_MaskableNeverNested == []C9_OnlyNMINests /\ [][C9_Step]_vars

C9_Witness ==
    /\ Len(stack) = 2
    /\ stack[1].via = "external" /\ stack[1].vector = 33
    /\ stack[2].via = "nmi"
    /\ ~intFlag

\* The format of the first line handler k prints.
Message(k) ==
    LET prints == SelectSeq(Body(k), LAMBDA op : op[1] = "printk")
    IN  prints[1][2]

\* C10 as claimed: every finished invocation of a dedicated handler has
\* printed exactly one line, which carries the error code when the handler
\* takes one.
C10_OneLineEach ==
    \A f \in Frames :
        (Finished(f) /\ f.handler # Fallback) =>
            /\ Len(f.out) = 1
            /\ TakesError(f.handler) => f.out[1] = <<Message(f.handler), f.error>>

\* C10 as amended: every finished invocation of a dedicated handler other
\* than the clock's has printed exactly one line, the handler's own, which
\* no other handler prints and which carries the error code when the
\* handler takes one; the clock handler has printed the uptime line when
\* time_Ticker has reached a multiple of 1024 and nothing otherwise.
C10_OneLineExceptClock ==
    \A f \in Frames :
        (Finished(f) /\ f.handler # Fallback) =>
            IF f.handler = Clock
            THEN f.out = IF time_Ticker % 1024 = 0
                         THEN << <<"\ruptime: %u64ds", time_Ticker \div 1024>> >>
                         ELSE <<>>
            ELSE /\ Len(f.out) = 1
                 /\ f.out[1][1] = Message(f.handler)
                 /\ \A k \in HandlerIds : Message(k) = f.out[1][1] => k = f.handler
                 /\ Len(f.out[1]) = IF f.vector \in ErrorCodeVectors \/ f.vector = 33
                                    THEN 2 ELSE 1
                 /\ f.vector \in ErrorCodeVectors => f.out[1][2] = f.error

C10_Witness ==
    /\ Len(stack) = 1
    /\ Top.vector = 14
    /\ Finished(Top)
    /\ Top.error = 4
    /\ Top.out = << <<"page fault exception (error %u64x)\n", 4>> >>

(***************************************************************************)
(* Properties of the handlers' port traffic, checked under Spec.           *)
(***************************************************************************)

\* The command ports of the primary and the secondary controller, and the
\* end-of-interrupt command byte.
PIC1_COMMAND == 32

PIC2_COMMAND == 160

EOI == 32

Keyboard == HandlerId("handleKeyboardInterrupt")

LPT1 == HandlerId("handleLPT1Interrupt")

IsAck(e, port) == e[1] = "out8" /\ e[2] = port /\ e[3] = EOI

\* The number of end-of-interrupt writes to port in a sequence of port
\* accesses or of statements.
Acks(s, port) == Len(SelectSeq(s, LAMBDA e : IsAck(e, port)))

PrimaryIRQVectors == 32..38

SecondaryIRQVectors == 40..47

\* The end-of-interrupt writes C11 gives the handler of vector v.
DueAcks(v, port) ==
    IF port = PIC1_COMMAND
    THEN IF v \in PrimaryIRQVectors \cup SecondaryIRQVectors THEN 1 ELSE 0
    ELSE IF v \in SecondaryIRQVectors THEN 1 ELSE 0

\* C11: every finished invocation for a vector other than 39 has written
\* end-of-interrupt once to the primary controller if its vector is 32-38,
\* once to the secondary and once to the primary if it is 40-47, and not at
\* all otherwise (CPU faults, the fallback's vectors, vector 255); an
\* unfinished one has not written more; and the handlers int_Init leaves in
\* the slots, that of the masked vector 32 included, hold exactly these
\* writes, on no branch.
C11_EndOfInterrupt ==
    /\ \A f \in Frames : \A port \in {PIC1_COMMAND, PIC2_COMMAND} :
        f.vector # 39 =>
            /\ Acks(f.io, port) <= DueAcks(f.vector, port)
            /\ Finished(f) => Acks(f.io, port) = DueAcks(f.vector, port)
    /\ IdleAfterInit =>
        \A v \in Vectors \ {39} :
            /\ \A port \in {PIC1_COMMAND, PIC2_COMMAND} :
                Acks(Body(SlotHandler(v)), port) = DueAcks(v, port)
            /\ \A n \in 1..Len(Body(SlotHandler(v))) :
                Body(SlotHandler(v))[n][1] \notin {"if_second", "if_and"}
                \/ v = 40

C11_Witness ==
    /\ Len(stack) = 1
    /\ Top.vector = 47
    /\ Finished(Top)
    /\ Top.io = << <<"out8", PIC2_COMMAND, EOI>>, <<"out8", PIC1_COMMAND, EOI>> >>

\* The accesses of f before its first end-of-interrupt write.
BeforeAck(f) ==
    LET acks == {n \in 1..Len(f.io) : IsAck(f.io[n], PIC1_COMMAND) \/ IsAck(f.io[n], PIC2_COMMAND)}
    IN  IF acks = {} THEN f.io
        ELSE SubSeq(f.io, 1, (CHOOSE n \in acks : \A m \in acks : n <= m) - 1)

\* C12: a keyboard invocation that has written end-of-interrupt has read
\* port 0x60 before; a clock invocation that has written any
\* end-of-interrupt has before that written 0x0C to port 0x70 and then read
\* port 0x71; and both handlers do write end-of-interrupt before they
\* finish.
C12_DeviceBeforeAck ==
    \A f \in Frames :
        LET acked == BeforeAck(f) # f.io
            pre == BeforeAck(f)
        IN  /\ (f.handler = Keyboard /\ acked) =>
                \E m \in 1..Len(pre) : pre[m][1] = "in8" /\ pre[m][2] = 96
            /\ (f.handler = Clock /\ acked) =>
                \E m \in 1..Len(pre) : \E n \in (m + 1)..Len(pre) :
                    /\ pre[m] = <<"out8", 112, 12>>
                    /\ pre[n][1] = "in8" /\ pre[n][2] = 113
            /\ (f.handler \in {Keyboard, Clock} /\ Finished(f)) => acked

C12_Witness ==
    /\ Len(stack) = 1
    /\ Top.handler = Clock
    /\ Finished(Top)
    /\ Top.io = << <<"out8", 112, 12>>, <<"in8", 113, 128>>,
                   <<"out8", PIC2_COMMAND, EOI>>, <<"out8", PIC1_COMMAND, EOI>> >>

\* What a finished invocation that polls the in-service register of the
\* primary controller and acknowledges it only when bit 7 is set has done.
Polled(f) ==
    /\ Len(f.io) >= 2
    /\ f.io[1] = <<"out8", PIC1_COMMAND, 11>>
    /\ f.io[2][1] = "in8" /\ f.io[2][2] = PIC1_COMMAND
    /\ f.io = IF BitAnd(f.io[2][3], 128) # 0
              THEN <<f.io[1], f.io[2], <<"out8", PIC1_COMMAND, EOI>> >>
              ELSE <<f.io[1], f.io[2]>>

\* C13 as the spec places it: the handler of line 7 of the secondary
\* controller (IRQ 15, vector 47) polls the in-service register and
\* acknowledges only when the bit is set.
C13_SecondaryLinePolled ==
    \A f \in Frames : (f.vector = 47 /\ Finished(f)) => Polled(f)

\* C13 as amended: it is the handler of line 7 of the primary controller
\* (IRQ 7, vector 39) that writes 0x0B to port 0x20, reads port 0x20 and
\* writes end-of-interrupt to the primary controller if and only if bit
\* 0x80 of the value read is set, and does nothing else on the ports.
C13_PrimaryLinePolled ==
    \A f \in Frames :
        /\ (f.vector = 39 /\ Finished(f)) => f.handler = LPT1 /\ Polled(f)
        /\ f.vector = 39 =>
            \A n \in 1..Len(f.io) : IsAck(f.io[n], PIC1_COMMAND) =>
                /\ n = 3
                /\ f.io[1] = <<"out8", PIC1_COMMAND, 11>>
                /\ f.io[2][1] = "in8" /\ f.io[2][2] = PIC1_COMMAND
                /\ BitAnd(f.irr, 128) # 0 /\ f.irr = f.io[2][3]

C13_Witness ==
    /\ Len(stack) = 1
    /\ Top.vector = 39
    /\ Finished(Top)
    /\ Top.io = << <<"out8", PIC1_COMMAND, 11>>, <<"in8", PIC1_COMMAND, 0>> >>

(***************************************************************************)
(* Termination of the handlers, checked under SpecLive.                    *)
(***************************************************************************)

\* No handler in progress is stopped or waits: the processor can always
\* execute its next statement, whatever the ports return.
C14_NoWait == ~Idle => Running /\ ENABLED HandlerStep

\* A step enters one handler at its first statement and leaves the handlers
\* in progress as they are, or moves the innermost handler forward without
\* entering one, or returns from the innermost handler, which has executed
\* its last statement.
C14_Step ==
    \/ stack' = stack
    \/ /\ Len(stack') = Len(stack) + 1
       /\ SubSeq(stack', 1, Len(stack)) = stack
       /\ stack'[Len(stack')].ip = 1
       /\ stack'[Len(stack')].io = <<>> /\ stack'[Len(stack')].out = <<>>
    \/ /\ Len(stack') = Len(stack) /\ ~Idle
       /\ SubSeq(stack', 1, Len(stack) - 1) = SubSeq(stack, 1, Len(stack) - 1)
       /\ stack'[Len(stack)].ip > Top.ip
       /\ stack'[Len(stack)].vector = Top.vector
       /\ stack'[Len(stack)].handler = Top.handler
    \/ /\ Len(stack') = Len(stack) - 1
       /\ stack' = SubSeq(stack, 1, Len(stack) - 1)
       /\ Finished(Top)

\* C14: whenever a handler is in progress the kernel is eventually Idle
\* again, whatever the device registers hold; no handler waits; and each
\* event enters exactly one handler, which runs each of its statements at
\* most once and returns once.
C14_Terminates ==
    /\ (~Idle) ~> Idle
    /\ []C14_NoWait
    /\ [][C14_Step]_vars

C14_Witness ==
    /\ Len(stack) = 2
    /\ stack[1].handler = LPT1 /\ stack[1].irr = 0 /\ stack[1].ip = 4
    /\ Finished(stack[2])

(***************************************************************************)
(* kernel/mem.c: the page tables.                                          *)
(*                                                                         *)
(* A table has 512 entries.  The model keeps the entries at the indices    *)
(* of Indexes one by one and a single value, rest, that every other entry  *)
(* of the table holds; a loop over the 512 indices is a loop over Runs,    *)
(* the maximal runs of indices whose entries hold one value.               *)
(***************************************************************************)

PAGE_ENTRIES_PER_TABLE == 512

\* uintptr* PML4 = (uintptr*)(uintptr)0x2000
PML4 == <<8192, 0, 0, 0>>

PAGE_FLAG_PRESENT == <<1, 0, 0, 0>>

PAGE_FLAG_READ_WRITE == <<2, 0, 0, 0>>

PAGE_FLAG_LARGE_PAGE_SIZE == <<128, 0, 0, 0>>

PAGE_FLAG_NOT_EXECUTABLE == <<0, 0, 0, 32768>>

MASK_BITS_51_TO_12 == <<61440, 65535, 65535, 15>>

MASK_BITS_47_TO_21 == <<0, 65504, 65535, 0>>

MASK_BITS_20_TO_0 == <<65535, 31, 0, 0>>

Indexes == {0, 1, 511}

\* The runs, first and last index, in the order the loops visit them.
Runs == << <<0, 0>>, <<1, 1>>, <<2, PAGE_ENTRIES_PER_TABLE - 2>>,
           <<PAGE_ENTRIES_PER_TABLE - 1, PAGE_ENTRIES_PER_TABLE - 1>> >>

RunLength(p) == Runs[p][2] - Runs[p][1] + 1

\* table[idx]
Entry(t, idx) == IF idx \in Indexes THEN t.e[idx] ELSE t.rest

\* The value every entry of run p of table t holds.
RunEntry(t, p) == Entry(t, Runs[p][1])

\* table[idx] = v for every idx of run p.
SetRun(t, p, v) ==
    IF Runs[p][1] \in Indexes THEN [t EXCEPT !.e[Runs[p][1]] = v]
    ELSE [t EXCEPT !.rest = v]

\* An entry taken for present when its count field is not zero.
Present_OrCounted(entry) ==
    And64(entry, PAGE_FLAG_PRESENT) # Zero64 \/ (entry[4] \div 32) % 1024 # 0

\* entry & PAGE_FLAG_PRESENT
Present(entry) == And64(entry, PAGE_FLAG_PRESENT) # Zero64

\* (uintptr*)(MASK_BITS_51_TO_12 & entry)
TableOf(entry) == And64(MASK_BITS_51_TO_12, entry)

\* PDTEs after loop k of mem_Init over the runs of table t from run p on.
RECURSIVE CountPresent(_, _)
CountPresent(t, p) ==
    IF p > Len(Runs) THEN 0
    ELSE (IF Present(RunEntry(t, p)) THEN RunLength(p) ELSE 0) + CountPresent(t, p + 1)

\* The count stored one bit too low.
Annotate_Shift52(count, entry) == Or64(Shl64(FromUint16(count), 52), entry)

\* (count << 53) | entry
Annotate(count, entry) == Or64(Shl64(FromUint16(count), 53), entry)

(***************************************************************************)
(* The trees mem.c is run on.  The boot loader builds the tree; the model  *)
(* builds one from a choice of directory entries at LeafPositions.         *)
(***************************************************************************)

\* The number of directory entries the boot loader filled in.
MaxLeaves == 2

\* The largest maxPagesPrinted the model passes.
MaxPages == 2

\* (i, j, k): neighbours within a directory, across a directory-pointer
\* table boundary, and the last entry of the last directory.
LeafPositions == {<<0, 0, 0>>, <<0, 0, 1>>, <<0, 511, 511>>, <<1, 0, 0>>, <<511, 511, 511>>}

\* Where the tables lie: one above 4 GiB, one at the highest address an
\* entry can hold.
PDPTAddress(i) ==
    CASE i = 0 -> <<12288, 0, 0, 0>>
      [] i = 1 -> <<16384, 0, 0, 0>>
      [] OTHER -> <<20480, 0, 1, 0>>

\* The directories that can hold an entry.
Directories == {<<pos[1], pos[2]>> : pos \in LeafPositions}

PDTAddress(i, j) ==
    CASE i = 0 /\ j = 0 -> <<0, 1, 0, 0>>
      [] i = 0 /\ j = 511 -> <<8192, 1, 0, 0>>
      [] i = 1 /\ j = 0 -> <<12288, 1, 0, 0>>
      [] OTHER -> <<61440, 65535, 65535, 15>>

\* Directory entries: 2 MiB pages at four physical bases, and an entry
\* that refers to a page table of 4 KiB pages.
LargePage(base) ==
    Or64(base, Or64(PAGE_FLAG_LARGE_PAGE_SIZE, Or64(PAGE_FLAG_READ_WRITE, PAGE_FLAG_PRESENT)))

SmallPages == Or64(<<0, 2, 0, 0>>, Or64(PAGE_FLAG_READ_WRITE, PAGE_FLAG_PRESENT))

\* Physical addresses of pages: 0, 2 MiB, 4 MiB and 2^48 + 2 MiB.
PageBases == {Zero64, <<0, 32, 0, 0>>, <<0, 64, 0, 0>>, <<0, 32, 0, 1>>}

DirectoryEntries == {LargePage(b) : b \in PageBases} \cup {SmallPages}

\* What else the boot loader left in memory:
\*   "plain"  absent entries are zero and so is the memory at address 0;
\*   "stale"  absent entries at Indexes keep the address of a table, and
\*            the memory at address 0 holds a word with bit 0 set;
\*   "full"   every entry of directory (0, 0) maps the same page (with
\*            the tree that has no other entry);
\*   "empty"  directory-pointer entry (0, 511) is present and its
\*            directory may hold no present entry.
Leftovers == {"plain", "stale", "full", "empty"}

Trees ==
    UNION {[S -> DirectoryEntries] :
            S \in {S \in SUBSET LeafPositions : Cardinality(S) <= MaxLeaves}}

\* A page above 2^48 is the only entry of its tree.
Boots ==
    {b \in Trees \X Leftovers :
        /\ b[2] = "full" => DOMAIN b[1] = {}
        /\ (\E pos \in DOMAIN b[1] : b[1][pos][4] % 16 # 0)
                => Cardinality(DOMAIN b[1]) = 1 /\ b[2] = "plain"}

NonPresent(address, lo) == IF lo = "stale" THEN Or64(address, PAGE_FLAG_READ_WRITE) ELSE Zero64

\* Directory (i, j).
DirectoryOf(tree, lo, i, j) ==
    LET open == IF lo = "full" /\ i = 0 /\ j = 0 THEN LargePage(<<0, 16384, 0, 0>>) ELSE Zero64
    IN  [e |-> [k \in Indexes |-> IF <<i, j, k>> \in DOMAIN tree THEN tree[<<i, j, k>>] ELSE open],
         rest |-> open]

HasDirectory(tree, lo, i, j) ==
    \/ <<i, j>> \in Directories /\ \E pos \in DOMAIN tree : pos[1] = i /\ pos[2] = j
    \/ lo = "full" /\ i = 0 /\ j = 0
    \/ lo = "empty" /\ i = 0 /\ j = 511

\* Directory-pointer table i; the entry of the last directory is marked
\* not executable.
PointerTableOf(tree, lo, i) ==
    [e |-> [j \in Indexes |->
            IF HasDirectory(tree, lo, i, j)
            THEN Or64(PDTAddress(i, j),
                      Or64(IF i = 511 THEN PAGE_FLAG_NOT_EXECUTABLE ELSE Zero64,
                           Or64(PAGE_FLAG_READ_WRITE, PAGE_FLAG_PRESENT)))
            ELSE NonPresent(PDTAddress(0, 0), lo)],
     rest |-> Zero64]

HasPointerTable(tree, lo, i) == \E j \in Indexes : HasDirectory(tree, lo, i, j)

RootTableOf(tree, lo) ==
    [e |-> [i \in Indexes |->
            IF HasPointerTable(tree, lo, i)
            THEN Or64(PDPTAddress(i), Or64(PAGE_FLAG_READ_WRITE, PAGE_FLAG_PRESENT))
            ELSE NonPresent(PDPTAddress(i), lo)],
     rest |-> Zero64]

\* The memory at address 0, which is no page table: the real-mode
\* interrupt vectors before int_Init, the IDT after it.
LowMemoryOf(lo) ==
    [e |-> [k \in Indexes |-> IF lo = "stale" /\ k = 0 THEN <<65363, 61440, 0, 0>> ELSE Zero64],
     rest |-> Zero64]

TableAddresses ==
    {Zero64, PML4} \cup {PDPTAddress(i) : i \in Indexes}
    \cup {PDTAddress(ij[1], ij[2]) : ij \in Directories}

MemoryOf(tree, lo) ==
    [a \in TableAddresses |->
        IF a = Zero64 THEN LowMemoryOf(lo)
        ELSE IF a = PML4 THEN RootTableOf(tree, lo)
        ELSE IF \E i \in Indexes : a = PDPTAddress(i)
        THEN PointerTableOf(tree, lo, CHOOSE i \in Indexes : a = PDPTAddress(i))
        ELSE LET ij == CHOOSE ij \in Directories : a = PDTAddress(ij[1], ij[2])
             IN  DirectoryOf(tree, lo, ij[1], ij[2])]

(***************************************************************************)
(* mem_Init, one iteration of loop i or of loop j per step.                *)
(***************************************************************************)

\* The locals of mem_Init and mem_DebugPaging: i, j and k count runs.
NoLocals ==
    [at |-> "boot", maxPagesPrinted |-> 0, i |-> 1, j |-> 1, k |-> 1,
     pml4e |-> Zero64, pdpte |-> Zero64, PDPTEs |-> 0, pages |-> 0,
     prevVirtualStart |-> Zero64, prevVirtualEnd |-> Zero64,
     prevPageStart |-> Zero64, prevPageEnd |-> Zero64]

InitMem ==
    /\ idt = <<>> /\ intFlag = FALSE /\ pc = At("mem")
    /\ imr = [primary |-> 255, secondary |-> 255]
    /\ stack = <<>> /\ time_Ticker = 0
    /\ layout = CHOOSE l \in Layouts : TRUE
    /\ halted = "no" /\ arg = NoArg
    /\ out = <<>>
    /\ \E b \in Boots : tables = MemoryOf(b[1], b[2])
    /\ mm = NoLocals
    /\ reads = {}
    /\ LibIdle

\* mem_Init()
CallMemInit ==
    /\ mm.at = "boot"
    /\ mm' = [NoLocals EXCEPT !.at = "init_i"]
    /\ UNCHANGED <<libVars, intRest, out, tables, reads>>

\* Lines 187-195: the head of loop i, up to the head of loop j.  The
\* entries of a run that is not present are skipped alike.
MemInitRoot ==
    /\ mm.at = "init_i" /\ mm.i <= Len(Runs)
    /\ LET pml4e == RunEntry(tables[PML4], mm.i)
       IN  IF ~Present(pml4e)
           THEN mm' = [mm EXCEPT !.i = @ + 1]
           ELSE mm' = [mm EXCEPT !.at = "init_j", !.pml4e = pml4e, !.PDPTEs = 0, !.j = 1]
    /\ UNCHANGED <<libVars, intRest, out, tables, reads>>

\* Lines 197-213: one iteration of loop j, with loop k inside it, for every
\* entry of run j: they hold one value and refer to one table.
MemInitEntry ==
    /\ mm.at = "init_j" /\ mm.j <= Len(Runs)
    /\ LET pdpt == TableOf(mm.pml4e)
           pdpte == RunEntry(tables[pdpt], mm.j)
           pdt == TableOf(pdpte)
           PDTEs == CountPresent(tables[pdt], 1)
       IN  /\ reads' = reads \cup {[table |-> pdpt, through |-> mm.pml4e],
                                   [table |-> pdt, through |-> pdpte]}
           /\ mm' = [mm EXCEPT !.j = @ + 1,
                               !.PDPTEs = IF Present(pdpte) THEN @ + RunLength(mm.j) ELSE @]
           /\ tables' = IF PDTEs > 0
                        THEN [tables EXCEPT ![pdpt] = SetRun(@, mm.j, Annotate(PDTEs, pdpte))]
                        ELSE tables
    /\ UNCHANGED <<libVars, intRest, out>>

\* Lines 216-218, after loop j.
MemInitCount ==
    /\ mm.at = "init_j" /\ mm.j > Len(Runs)
    /\ tables' = IF mm.PDPTEs > 0
                 THEN [tables EXCEPT ![PML4] = SetRun(@, mm.i, Annotate(mm.PDPTEs, mm.pml4e))]
                 ELSE tables
    /\ mm' = [mm EXCEPT !.at = "init_i", !.i = @ + 1]
    /\ UNCHANGED <<libVars, intRest, out, reads>>

\* Loop i is over: mem_Init returns.
MemInitReturn ==
    /\ mm.at = "init_i" /\ mm.i > Len(Runs)
    /\ mm' = [NoLocals EXCEPT !.at = "annotated"]
    /\ UNCHANGED <<libVars, intRest, out, tables, reads>>

(***************************************************************************)
(* mem_DebugPaging, one iteration of loop i or of loop j, or one run of    *)
(* loop k, per step.                                                       *)
(***************************************************************************)

RangeFormat == "Page map virtual addresses %p-%p to physical addresses %p-%p\n"

\* The std_Printk call of lines 284 and 300.
RangeLine(w) ==
    <<RangeFormat, w.prevVirtualStart, w.prevVirtualEnd, w.prevPageStart, w.prevPageEnd>>

\* The virtual address without the directory-pointer index.
VirtualStart_NoPDPT(i, j, k) ==
    Or64(Shl64(FromUint16(BitAnd(511, i)), 39), Shl64(FromUint16(BitAnd(511, k)), 21))

\* Lines 268-271.
VirtualStart(i, j, k) ==
    Or64(Or64(Shl64(FromUint16(BitAnd(511, i)), 39),
              Shl64(FromUint16(BitAnd(511, j)), 30)),
         Shl64(FromUint16(BitAnd(511, k)), 21))

\* No directory entry taken for one of 4 KiB pages.
Unsupported_Never(pde) == FALSE

\* (pde & PAGE_FLAG_LARGE_PAGE_SIZE) == 0
Unsupported(pde) == And64(pde, PAGE_FLAG_LARGE_PAGE_SIZE) = Zero64

\* The range printed while pages <= maxPagesPrinted.
Flush_Inclusive(w, maxPagesPrinted) ==
    LET pages == w.pages + 1
    IN  [w EXCEPT !.pages = pages,
                  !.out = IF pages <= maxPagesPrinted THEN Append(@, RangeLine(w)) ELSE @]

\* Lines 282-287: the range before this leaf is counted, and printed
\* under the cap.
Flush(w, maxPagesPrinted) ==
    LET pages == w.pages + 1
    IN  [w EXCEPT !.pages = pages,
                  !.out = IF pages < maxPagesPrinted
                          THEN Append(@, RangeLine(w))
                          ELSE IF pages = maxPagesPrinted
                          THEN Append(@, <<"Stopping after %u64d pages printed.\n", maxPagesPrinted>>)
                          ELSE @]

\* Lines 252-293: the body of loop k for directory entry pde at (i, j, k).
\* w holds pages, the four prev locals and the lines printed.
Visit(w, maxPagesPrinted, pde, i, j, k) ==
    IF ~Present(pde) THEN w
    ELSE IF Unsupported(pde)
    THEN [w EXCEPT !.out = Append(@, <<"Page %u64d/%u64d/%u64d has S bit unset\n", i, j, k>>)]
    ELSE LET pageStart == And64(MASK_BITS_47_TO_21, pde)
             pageEnd == Or64(pageStart, MASK_BITS_20_TO_0)
             virtualStart == VirtualStart(i, j, k)
             virtualEnd == Or64(virtualStart, MASK_BITS_20_TO_0)
             flushed == IF w.prevPageEnd # Zero64 THEN Flush(w, maxPagesPrinted) ELSE w
         IN  IF /\ w.prevPageEnd # Zero64
                /\ Add64(w.prevPageEnd, 1) = pageStart
                /\ Add64(w.prevVirtualEnd, 1) = virtualStart
             THEN [w EXCEPT !.prevPageEnd = pageEnd, !.prevVirtualEnd = virtualEnd]
             ELSE [flushed EXCEPT !.prevPageStart = pageStart,
                                  !.prevPageEnd = pageEnd,
                                  !.prevVirtualStart = virtualStart,
                                  !.prevVirtualEnd = virtualEnd]

\* Loop k over the indices k..last, whose entries all hold pde: the first
\* half of the indices, then the second.  (pages never decreases: the test
\* has the first half evaluated before the second is entered.)
RECURSIVE VisitRun(_, _, _, _, _, _, _)
VisitRun(w, maxPagesPrinted, pde, i, j, k, last) ==
    IF k > last \/ ~Present(pde) THEN w
    ELSE IF k = last THEN Visit(w, maxPagesPrinted, pde, i, j, k)
    ELSE LET mid == (k + last) \div 2
             half == VisitRun(w, maxPagesPrinted, pde, i, j, k, mid)
         IN  IF half.pages >= w.pages
             THEN VisitRun(half, maxPagesPrinted, pde, i, j, mid + 1, last)
             ELSE half

\* The locals Visit works on.
Walked ==
    [pages |-> mm.pages, out |-> out,
     prevVirtualStart |-> mm.prevVirtualStart, prevVirtualEnd |-> mm.prevVirtualEnd,
     prevPageStart |-> mm.prevPageStart, prevPageEnd |-> mm.prevPageEnd]

\* mem_DebugPaging(maxPagesPrinted), on the tree as the boot loader left
\* it or after mem_Init.
CallDebugPaging ==
    /\ mm.at \in {"boot", "annotated"}
    /\ \E maxPagesPrinted \in 0..MaxPages :
        mm' = [NoLocals EXCEPT !.at = "debug_i", !.maxPagesPrinted = maxPagesPrinted]
    /\ out' = << <<"mem_DebugPaging start\n">> >>
    /\ UNCHANGED <<libVars, intRest, tables, reads>>

\* Lines 231-242: the head of loop i, up to the head of loop j.
DebugRoot ==
    /\ mm.at = "debug_i" /\ mm.i <= Len(Runs)
    /\ LET pml4e == RunEntry(tables[PML4], mm.i)
       IN  IF ~Present(pml4e)
           THEN /\ mm' = [mm EXCEPT !.i = @ + 1]
                /\ out' = IF Runs[mm.i][1] = 0
                          THEN Append(out, <<"PML4E 0 not present\n">>)
                          ELSE out
           ELSE /\ mm' = [mm EXCEPT !.at = "debug_j", !.pml4e = pml4e, !.j = 1]
                /\ UNCHANGED out
    /\ UNCHANGED <<libVars, intRest, tables, reads>>

\* Loop j setting the accessed flag of each present entry it passes.
DebugPointer_Marking ==
    /\ mm.at = "debug_j"
    /\ IF mm.j > Len(Runs)
       THEN /\ mm' = [mm EXCEPT !.at = "debug_i", !.i = @ + 1]
            /\ UNCHANGED tables
       ELSE LET pdpte == RunEntry(tables[TableOf(mm.pml4e)], mm.j)
            IN  IF ~Present(pdpte)
                THEN /\ mm' = [mm EXCEPT !.j = @ + 1]
                     /\ UNCHANGED tables
                ELSE /\ mm' = [mm EXCEPT !.at = "debug_k", !.pdpte = pdpte, !.k = 1]
                     /\ tables' = [tables EXCEPT ![TableOf(mm.pml4e)] =
                                       SetRun(@, mm.j, Or64(pdpte, <<32, 0, 0, 0>>))]
    /\ UNCHANGED <<libVars, intRest, out, reads>>

\* Lines 243-250: the head of loop j, up to the head of loop k; after the
\* last entry, the next iteration of loop i.
DebugPointer ==
    /\ mm.at = "debug_j"
    /\ IF mm.j > Len(Runs)
       THEN mm' = [mm EXCEPT !.at = "debug_i", !.i = @ + 1]
       ELSE LET pdpte == RunEntry(tables[TableOf(mm.pml4e)], mm.j)
            IN  IF ~Present(pdpte)
                THEN mm' = [mm EXCEPT !.j = @ + 1]
                ELSE mm' = [mm EXCEPT !.at = "debug_k", !.pdpte = pdpte, !.k = 1]
    /\ UNCHANGED <<libVars, intRest, out, tables, reads>>

\* Lines 251-294: loop k over one run of the directory; after the last
\* run, the next iteration of loop j.
DebugEntry ==
    /\ mm.at = "debug_k"
    /\ IF mm.k > Len(Runs)
       THEN /\ mm' = [mm EXCEPT !.at = "debug_j", !.j = @ + 1]
            /\ UNCHANGED out
       ELSE LET pde == RunEntry(tables[TableOf(mm.pdpte)], mm.k)
                w == VisitRun(Walked, mm.maxPagesPrinted, pde, Runs[mm.i][1],
                              Runs[mm.j][1], Runs[mm.k][1], Runs[mm.k][2])
            IN  /\ mm' = [mm EXCEPT !.k = @ + 1,
                                    !.pages = w.pages,
                                    !.prevVirtualStart = w.prevVirtualStart,
                                    !.prevVirtualEnd = w.prevVirtualEnd,
                                    !.prevPageStart = w.prevPageStart,
                                    !.prevPageEnd = w.prevPageEnd]
                /\ out' = w.out
    /\ UNCHANGED <<libVars, intRest, tables, reads>>

\* Lines 298-305, after loop i.
DebugFinish ==
    /\ mm.at = "debug_i" /\ mm.i > Len(Runs)
    /\ LET last == mm.prevPageStart # Zero64
           pages == IF last THEN mm.pages + 1 ELSE mm.pages
       IN  /\ mm' = [mm EXCEPT !.at = "debug_end", !.pages = pages]
           /\ out' = (IF last THEN Append(out, RangeLine(Walked)) ELSE out)
                     \o << <<"%u64d contiguous page mappings.\n", pages>>,
                           <<"mem_DebugPaging end\n">> >>
    /\ UNCHANGED <<libVars, intRest, tables, reads>>

NextMem ==
    \/ CallMemInit
    \/ MemInitRoot
    \/ MemInitEntry
    \/ MemInitCount
    \/ MemInitReturn
    \/ CallDebugPaging
    \/ DebugRoot
    \/ DebugPointer
    \/ DebugEntry
    \/ DebugFinish

SpecMem == InitMem /\ [][NextMem]_vars

\* The kernel with both subsystems: a boot in which int.c runs, or one in
\* which mem.c runs.  Neither file names a variable of the other.
InitFrame == Init \/ InitMem

NextFrame ==
    \/ pc.at # "mem" /\ Next
    \/ pc.at = "mem" /\ NextMem

SpecFrame == InitFrame /\ [][NextFrame]_vars

(***************************************************************************)
(* Properties of mem_Init, checked under SpecMem.  The formulas read the   *)
(* entries bit by bit from the limbs, not through the operators of the     *)
(* model.                                                                  *)
(***************************************************************************)

IsPresent(entry) == entry[1] % 2 = 1

HasLargeFlag(entry) == (entry[1] \div 128) % 2 = 1

\* Bits 53-62 of an entry.
CountField(entry) == (entry[4] \div 32) % 1024

\* The number of present entries among the 512 of table t.
DirectCount(t) ==
    Cardinality({idx \in 0..(PAGE_ENTRIES_PER_TABLE - 1) : IsPresent(Entry(t, idx))})

TableIndexes == 0..(PAGE_ENTRIES_PER_TABLE - 1)

Annotated == mm.at = "annotated"

\* C15: when mem_Init has returned, every present root entry holds in bits
\* 53-62 the number of present entries of the directory-pointer table it
\* refers to, and every present entry of such a table holds the number of
\* present entries of the directory it refers to, large pages or not.
C15_CountsPresentEntries ==
    Annotated =>
        \A i \in TableIndexes :
            LET pml4e == Entry(tables[PML4], i)
                pdpt == tables[TableOf(pml4e)]
            IN  IsPresent(pml4e) =>
                    /\ CountField(pml4e) = DirectCount(pdpt)
                    /\ \A j \in TableIndexes :
                        LET pdpte == Entry(pdpt, j)
                        IN  IsPresent(pdpte) =>
                                CountField(pdpte) = DirectCount(tables[TableOf(pdpte)])

C15_Witness ==
    /\ Annotated
    /\ tables[PDTAddress(0, 0)].e[0] = SmallPages
    /\ IsPresent(tables[PDTAddress(0, 0)].e[1])
    /\ CountField(tables[PDPTAddress(0)].e[0]) = 2
    /\ CountField(tables[PML4].e[0]) = 1

\* C16: every table mem_Init has read below the root was read through an
\* entry whose present bit is set.
C16_ReadsThroughPresentOnly == \A r \in reads : IsPresent(r.through)

(***************************************************************************)
(* Properties of mem_DebugPaging, checked under SpecMem.  The leaves of    *)
(* the tree and their addresses are computed here from the tables, limb by *)
(* limb, and compared with the lines printed.                              *)
(***************************************************************************)

\* The positions (i, j, k) at which a tree of the model can hold a present
\* directory entry.
WalkPositions ==
    (Indexes \X Indexes \X Indexes)
        \cup (IF IsPresent(tables[PDTAddress(0, 0)].rest)
              THEN {<<0, 0, k>> : k \in TableIndexes}
              ELSE {})

\* The directory entry the walk finds at a position, zero when an entry
\* above it is absent.
PdeAt(pos) ==
    LET pml4e == Entry(tables[PML4], pos[1])
    IN  IF ~IsPresent(pml4e) THEN Zero64
        ELSE LET pdpte == Entry(tables[TableOf(pml4e)], pos[2])
             IN  IF ~IsPresent(pdpte) THEN Zero64
                 ELSE Entry(tables[TableOf(pdpte)], pos[3])

LargeLeaves == {pos \in WalkPositions : IsPresent(PdeAt(pos)) /\ HasLargeFlag(PdeAt(pos))}

SmallEntries == {pos \in WalkPositions : IsPresent(PdeAt(pos)) /\ ~HasLargeFlag(PdeAt(pos))}

\* The order in which the three loops reach two positions.
Before(a, b) ==
    \/ a[1] < b[1]
    \/ a[1] = b[1] /\ a[2] < b[2]
    \/ a[1] = b[1] /\ a[2] = b[2] /\ a[3] < b[3]

\* (i << 39) | (j << 30) | (k << 21), limb by limb.
VirtualOf(pos) ==
    <<0, pos[3] * 32 + (pos[2] % 4) * 16384, (pos[2] \div 4) + pos[1] * 128, 0>>

\* Bits 47-21 of a directory entry.
BaseOf(pde) == <<0, pde[2] - (pde[2] % 32), pde[3], 0>>

\* x | 0x1FFFFF for a 2 MiB aligned x.
EndOf(x) == <<65535, x[2] + 31, x[3], x[4]>>

\* The range from leaf a to leaf b, as printed.
RangeFrom(a, b) ==
    <<RangeFormat, VirtualOf(a), EndOf(VirtualOf(b)), BaseOf(PdeAt(a)), EndOf(BaseOf(PdeAt(b)))>>

IsRangeLine(line) == Len(line) = 5 /\ line[1] = RangeFormat

RangeLines(lines) == SelectSeq(lines, IsRangeLine)

DebugDone == mm.at = "debug_end"

\* C17: when the tree holds two large-page leaves and the cap is at least
\* two, mem_DebugPaging has reported one merged range if the second leaf
\* follows the first both physically and virtually, and the two leaves'
\* own ranges otherwise.
C17_MergeIffContiguous ==
    (DebugDone /\ mm.maxPagesPrinted >= 2 /\ Cardinality(LargeLeaves) = 2) =>
        \A a, b \in LargeLeaves :
            Before(a, b) =>
                LET contiguous ==
                        /\ Add64(EndOf(BaseOf(PdeAt(a))), 1) = BaseOf(PdeAt(b))
                        /\ Add64(EndOf(VirtualOf(a)), 1) = VirtualOf(b)
                IN  RangeLines(out) = IF contiguous
                                      THEN <<RangeFrom(a, b)>>
                                      ELSE <<RangeFrom(a, a), RangeFrom(b, b)>>

C19_NeverExceedsCap == Len(RangeLines(out)) <= mm.maxPagesPrinted

\* C19: the number of range lines printed never exceeds maxPagesPrinted
\* when that is at least 1, and never exceeds one line, the range flushed
\* after the walk, when it is 0; the lines printed during the walk stay
\* below maxPagesPrinted.
C19_CapExceptLastRange ==
    /\ Len(RangeLines(out)) <= (IF mm.maxPagesPrinted = 0 THEN 1 ELSE mm.maxPagesPrinted)
    /\ mm.at \in {"debug_i", "debug_j", "debug_k"} /\ mm.maxPagesPrinted > 0
        => Len(RangeLines(out)) < mm.maxPagesPrinted

\* The walk has met more ranges than the cap and has printed as many range
\* lines as the cap allows.
C19_Witness ==
    /\ DebugDone
    /\ mm.maxPagesPrinted = 1
    /\ mm.pages = 2
    /\ Len(RangeLines(out)) = 1
    /\ \E n \in 1..Len(out) : out[n] = <<"Stopping after %u64d pages printed.\n", 1>>

\* The line of lines 260-261 for a position.
AnomalyLine(pos) == <<"Page %u64d/%u64d/%u64d has S bit unset\n", pos[1], pos[2], pos[3]>>

IsAnomalyLine(line) == Len(line) = 4 /\ line[1] = "Page %u64d/%u64d/%u64d has S bit unset\n"

\* The position loop k is at.
DebugPosition == <<Runs[mm.i][1], Runs[mm.j][1], Runs[mm.k][1]>>

\* A step of loop k over a present directory entry without the large-page
\* flag prints the anomaly line of its position and nothing else, and
\* leaves the count and the range being accumulated as they were.
C20_Step ==
    (/\ mm.at = "debug_k" /\ mm.k <= Len(Runs)
     /\ RunLength(mm.k) = 1
     /\ DebugPosition \in SmallEntries)
        => /\ out' = Append(out, AnomalyLine(DebugPosition))
           /\ mm'.pages = mm.pages
           /\ mm'.prevVirtualStart = mm.prevVirtualStart
           /\ mm'.prevVirtualEnd = mm.prevVirtualEnd
           /\ mm'.prevPageStart = mm.prevPageStart
           /\ mm'.prevPageEnd = mm.prevPageEnd

\* When the walk is over, each small-page entry has its anomaly line, once,
\* no anomaly line names another position, and no range line starts or
\* ends at the address of a small-page entry.
C20_Reported ==
    DebugDone =>
        /\ \A pos \in SmallEntries :
            Cardinality({n \in 1..Len(out) : out[n] = AnomalyLine(pos)}) = 1
        /\ \A n \in 1..Len(out) :
            IsAnomalyLine(out[n]) => <<out[n][2], out[n][3], out[n][4]>> \in SmallEntries
        /\ \A n \in 1..Len(out) :
            IsRangeLine(out[n]) =>
                \A pos \in SmallEntries :
                    /\ out[n][2] # VirtualOf(pos)
                    /\ out[n][3] # EndOf(VirtualOf(pos))

\* C20: every directory entry that is present with the large-page flag
\* clear produces the anomaly message naming its position (i, j, k), is not
\* counted, starts and extends no reported range, and leaves the range
\* being accumulated unchanged.
C20_SmallPagesSkipped == []C20_Reported /\ [][C20_Step]_vars

\* A small-page entry lay between two large pages that would otherwise
\* have been neighbours in the walk.
C20_Witness ==
    /\ DebugDone
    /\ <<0, 0, 1>> \in SmallEntries
    /\ <<0, 0, 0>> \in LargeLeaves
    /\ \E n \in 1..Len(out) : out[n] = AnomalyLine(<<0, 0, 1>>)
    /\ mm.pages = 1
    /\ Len(RangeLines(out)) = 1

(***************************************************************************)
(* The tables after initialisation, checked under SpecFrame.               *)
(***************************************************************************)

\* A step taken inside mem_DebugPaging, its call and its return included.
DebugPagingStep ==
    /\ pc.at = "mem"
    /\ mm'.at \in {"debug_i", "debug_j", "debug_k", "debug_end"}

\* A step taken once int_Init has returned: a delivery, a statement of a
\* handler, the call of debugGate or its return.
AfterInitStep == pc.at \in {"done", "debugGate"}

C21_Step ==
    /\ AfterInitStep => idt' = idt /\ tables' = tables
    /\ DebugPagingStep => idt' = idt /\ tables' = tables

\* C21: once int_Init has returned, no handler invocation, no debugGate
\* call and no mem_DebugPaging call changes a gate descriptor or a
\* page-table entry.
C21_TablesReadOnly == [][C21_Step]_vars

\* mem_DebugPaging has walked a tree with a mapping in it and returned.
C21_Witness ==
    /\ pc.at = "mem"
    /\ DebugDone
    /\ LargeLeaves # {}
    /\ Len(RangeLines(out)) > 0

(***************************************************************************)
(* kernel/rand.c: rand_Read(buf, len), one statement group per step.  The  *)
(* buffer is known by the low four bits of its address; a byte stored is   *)
(* named by its offset from buf.  rdrand is the hardware's choice.         *)
(***************************************************************************)

\* The longest buffer asked for.
MaxLen == 17

\* The 64-bit stores of the central loop that are followed; a loop that
\* runs on after them has left the buffer behind.
MaxBlocks == 4

\* a - b on a uint64, modulo 2^64.
Sub64(a, b) ==
    LET d1 == a[1] - b[1]
        d2 == a[2] - b[2] - (IF d1 < 0 THEN 1 ELSE 0)
        d3 == a[3] - b[3] - (IF d2 < 0 THEN 1 ELSE 0)
        d4 == a[4] - b[4] - (IF d3 < 0 THEN 1 ELSE 0)
    IN  <<(d1 + 65536) % 65536, (d2 + 65536) % 65536,
          (d3 + 65536) % 65536, (d4 + 65536) % 65536>>

\* a < b on a uint64.
Less64(a, b) ==
    \/ a[4] < b[4]
    \/ a[4] = b[4] /\ a[3] < b[3]
    \/ a[4] = b[4] /\ a[3] = b[3] /\ a[2] < b[2]
    \/ a[4] = b[4] /\ a[3] = b[3] /\ a[2] = b[2] /\ a[1] < b[1]

\* The offsets followed beyond the end of the longest buffer.
Window == MaxLen + 8 * MaxBlocks

\* Everything but rand.
randRest == <<intVars, memVars, term, printk>>

\* The other subsystems while a library function is under test.
Parked ==
    /\ idt = <<>> /\ intFlag = FALSE /\ pc = At("lib")
    /\ imr = [primary |-> 255, secondary |-> 255]
    /\ stack = <<>> /\ time_Ticker = 0
    /\ layout = CHOOSE l \in Layouts : TRUE
    /\ halted = "no" /\ arg = NoArg
    /\ out = <<>>
    /\ tables = <<>> /\ mm = <<>> /\ reads = {}

\* rand_Read is called with a buffer at any address modulo 16 and any
\* length, after rand_Init (rand_Retries = 16) or without it (0).
InitRand ==
    /\ Parked
    /\ term = <<>> /\ printk = <<>>
    /\ \E address \in 0..15, len \in 0..MaxLen, retries \in {0, 16} :
        rand = [at |-> "call", address |-> address, len |-> len,
                rand_Retries |-> retries,
                lhead |-> 0, lblock |-> Zero64, ltail |-> Zero64, count |-> Zero64,
                i |-> 0, random |-> {}, zeroed |-> {}, failed |-> FALSE, ret |-> 0]

\* rand_read64: with no tries left to make it fails at once, otherwise
\* rdrand delivers within the tries or fails in all of them.
Rdrand == IF rand.rand_Retries = 0 THEN {"untried"} ELSE {"ok", "failed"}

\* The bytes std_Copy(buf + start, ..., n) stores, as far as followed.
CopyOffsets(start, n) ==
    IF n[2] = 0 /\ n[3] = 0 /\ n[4] = 0 /\ start + n[1] <= Window
    THEN start..(start + n[1] - 1)
    ELSE start..Window

\* Lines 45-65: head, aligned block and tail are laid out.
RandSplit ==
    /\ rand.at = "call"
    /\ LET len == FromUint16(rand.len)
           aligned == rand.address % 8 = 0
           lhead == IF aligned THEN 0 ELSE 8 - (rand.address % 8)
           lblock == IF aligned THEN len
                     ELSE Sub64(len, FromUint16(8 - BitAnd(rand.address, 8)))
           ltail == Sub64(Sub64(len, lblock), FromUint16(lhead))
       IN  rand' = [rand EXCEPT !.at = "head", !.lhead = lhead, !.lblock = lblock,
                                !.ltail = ltail, !.count = Shr64(lblock, 3)]
    /\ UNCHANGED randRest

\* Lines 70-76.
RandHead ==
    /\ rand.at = "head"
    /\ IF rand.lhead = 0
       THEN rand' = [rand EXCEPT !.at = "block"]
       ELSE \E outcome \in Rdrand :
            IF outcome = "ok"
            THEN rand' = [rand EXCEPT !.at = "block",
                                      !.random = @ \cup (0..(rand.lhead - 1))]
            ELSE rand' = [rand EXCEPT !.at = "returned", !.failed = TRUE, !.ret = 0]
    /\ UNCHANGED randRest

\* Lines 80-84: one iteration of the loop.  A failing rdrand leaves zero
\* in its destination, which is the block itself.
RandBlock ==
    /\ rand.at = "block"
    /\ IF ~Less64(FromUint16(rand.i), rand.count)
       THEN rand' = [rand EXCEPT !.at = "tail"]
       ELSE IF rand.i >= MaxBlocks
       THEN rand' = [rand EXCEPT !.at = "overrun"]
       ELSE LET block == (rand.lhead + 8 * rand.i)..(rand.lhead + 8 * rand.i + 7)
            IN  \E outcome \in Rdrand :
                CASE outcome = "ok" ->
                        rand' = [rand EXCEPT !.i = @ + 1,
                                             !.random = @ \cup block,
                                             !.zeroed = @ \ block]
                  [] outcome = "failed" ->
                        rand' = [rand EXCEPT !.at = "returned", !.failed = TRUE,
                                             !.zeroed = @ \cup (block \ rand.random),
                                             !.random = @ \ block,
                                             !.ret = rand.i * 8 + rand.lhead]
                  [] outcome = "untried" ->
                        rand' = [rand EXCEPT !.at = "returned", !.failed = TRUE,
                                             !.ret = rand.i * 8 + rand.lhead]
    /\ UNCHANGED randRest

\* Lines 88-96.
RandTail ==
    /\ rand.at = "tail"
    /\ IF rand.ltail = Zero64
       THEN rand' = [rand EXCEPT !.at = "returned", !.ret = rand.len]
       ELSE \E outcome \in Rdrand :
            IF outcome = "ok"
            THEN LET copied == CopyOffsets(rand.lhead + rand.lblock[1], rand.ltail)
                     whole == rand.ltail[2] = 0 /\ rand.ltail[3] = 0 /\ rand.ltail[4] = 0
                 IN  rand' = [rand EXCEPT !.at = IF whole THEN "returned" ELSE "overrun",
                                          !.random = @ \cup copied,
                                          !.zeroed = @ \ copied,
                                          !.ret = IF whole THEN rand.len ELSE 0]
            ELSE rand' = [rand EXCEPT !.at = "returned", !.failed = TRUE,
                                      !.ret = rand.count[1] * 8 + rand.lhead]
    /\ UNCHANGED randRest

NextRand ==
    \/ RandSplit
    \/ RandHead
    \/ RandBlock
    \/ RandTail

SpecRand == InitRand /\ [][NextRand]_vars

\* The bytes of buf[0..len).
Buffer == 0..(rand.len - 1)

\* C22: rand_Read stores no byte outside buf[0..len); when it returns and
\* every hardware read succeeded, every byte of buf[0..len) holds random
\* data and len is returned; in general the value returned is the number
\* of bytes of buf that hold random data.
C22_FillsExactly ==
    /\ (rand.random \cup rand.zeroed) \subseteq Buffer
    /\ rand.at # "overrun"
    /\ rand.at = "returned" =>
        /\ ~rand.failed => rand.random = Buffer /\ rand.ret = rand.len
        /\ rand.ret = Cardinality(rand.random \cap Buffer)

(***************************************************************************)
(* What mem_Init writes, checked under SpecMem.                            *)
(***************************************************************************)

\* One index for each distinct entry a table of the model holds.
SampleIndexes == Indexes \cup {2}

\* The root table and the tables present root entries refer to.
NonLeafTables ==
    {PML4} \cup {TableOf(Entry(tables[PML4], i)) : i \in {i \in SampleIndexes :
                                                        IsPresent(Entry(tables[PML4], i))}}

\* Two entries that differ at most in bits 53-62.
SameOutsideCount(before, after) ==
    /\ after[1] = before[1] /\ after[2] = before[2] /\ after[3] = before[3]
    /\ after[4] % 32 = before[4] % 32
    /\ after[4] \div 32768 = before[4] \div 32768

\* C23: a step of mem_Init changes an entry only if it is a present entry
\* of the root table or of a directory-pointer table, and then only in bits
\* 53-62: absent entries, directory entries, bits 0-52 and bit 63 stay as
\* they were.
C23_Step ==
    \A address \in DOMAIN tables :
        \A idx \in SampleIndexes :
            LET before == Entry(tables[address], idx)
                after == Entry(tables'[address], idx)
            IN  after # before =>
                    /\ IsPresent(before)
                    /\ address \in NonLeafTables
                    /\ SameOutsideCount(before, after)

C23_OnlyCountBits == [][C23_Step]_vars

(***************************************************************************)
(* The count mem_DebugPaging prints, checked under SpecMem.                *)
(***************************************************************************)

\* Leaf b continues the run of leaf a: it is the next 2 MiB of virtual
\* addresses and the next 2 MiB of physical addresses.
Continues(a, b) ==
    /\ Add64(EndOf(VirtualOf(a)), 1) = VirtualOf(b)
    /\ Add64(EndOf(BaseOf(PdeAt(a))), 1) = BaseOf(PdeAt(b))

\* The leaves that begin a maximal run.
RunStarts == {b \in LargeLeaves : ~\E a \in LargeLeaves : Continues(a, b)}

CountLine(n) == <<"%u64d contiguous page mappings.\n", n>>

\* C24: the count mem_DebugPaging prints last is the number of maximal
\* runs of large-page leaves contiguous both physically and virtually,
\* a run that starts at physical address 0 included.
C24_CountsMaximalRuns ==
    DebugDone => out[Len(out) - 1] = CountLine(Cardinality(RunStarts))

\* Bits 51-21 of a directory entry: the page address of the entry format.
PageAddressOf(pde) == <<0, pde[2] - (pde[2] % 32), pde[3], pde[4] % 16>>

\* C25: the physical start of every range printed is the page address,
\* bits 51-21, of the entry of the leaf the range starts at, for addresses
\* at and above 2^48 as for those below.
C25_PhysicalStartIsPageAddress ==
    \A n \in 1..Len(out) :
        IsRangeLine(out[n]) =>
            \A a \in LargeLeaves :
                out[n][2] = VirtualOf(a) => out[n][4] = PageAddressOf(PdeAt(a))

(***************************************************************************)
(* mem_Init on a tree whose count fields are not zero: the tree of a boot  *)
(* with a count left in bits 53-62 of every present entry of the root and  *)
(* directory-pointer tables, as after an earlier pass over a tree that has *)
(* changed since.                                                          *)
(***************************************************************************)

\* The count found in bits 53-62 before the pass.
StaleCount == 3

WithStaleCount(entry) ==
    IF Present(entry) THEN Or64(entry, Shl64(FromUint16(StaleCount), 53)) ELSE entry

StaleMemoryOf(tree, lo) ==
    LET memory == MemoryOf(tree, lo)
        upper == {PML4} \cup {PDPTAddress(i) : i \in Indexes}
    IN  [address \in DOMAIN memory |->
            IF address \in upper
            THEN [e |-> [idx \in Indexes |-> WithStaleCount(memory[address].e[idx])],
                  rest |-> WithStaleCount(memory[address].rest)]
            ELSE memory[address]]

InitMemStale ==
    /\ idt = <<>> /\ intFlag = FALSE /\ pc = At("mem")
    /\ imr = [primary |-> 255, secondary |-> 255]
    /\ stack = <<>> /\ time_Ticker = 0
    /\ layout = CHOOSE l \in Layouts : TRUE
    /\ halted = "no" /\ arg = NoArg
    /\ out = <<>>
    /\ \E b \in Boots : b[2] \in {"plain", "empty"} /\ tables = StaleMemoryOf(b[1], b[2])
    /\ mm = NoLocals
    /\ reads = {}
    /\ LibIdle

SpecMemStale == InitMemStale /\ [][NextMem]_vars

\* The entries of the root table and of the directory-pointer tables that
\* are present, each with the table it refers to.
NonLeafEntries ==
    LET roots == {Entry(tables[PML4], i) : i \in SampleIndexes}
        pointers == UNION {{Entry(tables[TableOf(r)], j) : j \in SampleIndexes} :
                            r \in {r \in roots : IsPresent(r)}}
    IN  {e \in roots \cup pointers : IsPresent(e)}

\* C26: when mem_Init has returned, whatever bits 53-62 held before, every
\* present entry of the root and directory-pointer tables holds in bits
\* 53-62 the number of present entries of the table it refers to, zero
\* included.
C26_CountsWhateverBefore ==
    Annotated => \A e \in NonLeafEntries : CountField(e) = DirectCount(tables[TableOf(e)])

(***************************************************************************)
(* mem_DebugPaging as a whole: what it prints for a memory and a cap.      *)
(***************************************************************************)

\* Loop k from run k on, for the directory of pdpte.
RECURSIVE WalkDirectory(_, _, _, _, _, _, _)
WalkDirectory(w, memory, maxPagesPrinted, pdpte, i, j, k) ==
    IF k > Len(Runs) THEN w
    ELSE LET next == VisitRun(w, maxPagesPrinted, RunEntry(memory[TableOf(pdpte)], k),
                              Runs[i][1], Runs[j][1], Runs[k][1], Runs[k][2])
         IN  IF next.pages >= w.pages
             THEN WalkDirectory(next, memory, maxPagesPrinted, pdpte, i, j, k + 1)
             ELSE next

\* Loop j from run j on, for the table of pml4e.
RECURSIVE WalkPointers(_, _, _, _, _, _)
WalkPointers(w, memory, maxPagesPrinted, pml4e, i, j) ==
    IF j > Len(Runs) THEN w
    ELSE LET pdpte == RunEntry(memory[TableOf(pml4e)], j)
             next == IF Present(pdpte)
                     THEN WalkDirectory(w, memory, maxPagesPrinted, pdpte, i, j, 1)
                     ELSE w
         IN  IF next.pages >= w.pages
             THEN WalkPointers(next, memory, maxPagesPrinted, pml4e, i, j + 1)
             ELSE next

\* Loop i from run i on.
RECURSIVE WalkRoot(_, _, _, _)
WalkRoot(w, memory, maxPagesPrinted, i) ==
    IF i > Len(Runs) THEN w
    ELSE LET pml4e == RunEntry(memory[PML4], i)
             next == IF Present(pml4e)
                     THEN WalkPointers(w, memory, maxPagesPrinted, pml4e, i, 1)
                     ELSE IF Runs[i][1] = 0
                     THEN [w EXCEPT !.out = Append(@, <<"PML4E 0 not present\n">>)]
                     ELSE w
         IN  IF next.pages >= w.pages
             THEN WalkRoot(next, memory, maxPagesPrinted, i + 1)
             ELSE next

\* Lines 222-306: the lines mem_DebugPaging(maxPagesPrinted) prints.
Report(memory, maxPagesPrinted) ==
    LET start == [pages |-> 0, out |-> << <<"mem_DebugPaging start\n">> >>,
                  prevVirtualStart |-> Zero64, prevVirtualEnd |-> Zero64,
                  prevPageStart |-> Zero64, prevPageEnd |-> Zero64]
        w == WalkRoot(start, memory, maxPagesPrinted, 1)
        last == w.prevPageStart # Zero64
        pages == IF last THEN w.pages + 1 ELSE w.pages
    IN  (IF last THEN Append(w.out, RangeLine(w)) ELSE w.out)
            \o << <<"%u64d contiguous page mappings.\n", pages>>,
                  <<"mem_DebugPaging end\n">> >>

\* An entry with bits 53-62 cleared.
StripCount(entry) ==
    <<entry[1], entry[2], entry[3], (entry[4] % 32) + (entry[4] \div 32768) * 32768>>

\* The memory with the count field of every entry of the root table and of
\* the directory-pointer tables cleared: the tree as it was before mem_Init
\* annotated it.
Unannotated ==
    [address \in DOMAIN tables |->
        IF address \in {PML4} \cup {PDPTAddress(i) : i \in Indexes}
        THEN [e |-> [idx \in Indexes |-> StripCount(tables[address].e[idx])],
              rest |-> StripCount(tables[address].rest)]
        ELSE tables[address]]

\* C27: the lines mem_DebugPaging has printed for a tree, annotated by
\* mem_Init or not, are the lines it prints for the same tree without the
\* counts: ranges, anomalies and final count are those of the tree before
\* annotation.
C27_ReportIgnoresCounts ==
    DebugDone => out = Report(Unannotated, mm.maxPagesPrinted)

\* mem_DebugPaging has run on an annotated tree and has printed a range
\* and an anomaly.
C27_Witness ==
    /\ DebugDone
    /\ tables # Unannotated
    /\ Len(RangeLines(out)) > 0
    /\ \E n \in 1..Len(out) : IsAnomalyLine(out[n])

(***************************************************************************)
(* The descriptors while int_Init is storing them, checked under Spec.     *)
(***************************************************************************)

\* The present flag of slot v, bit 7 of type_attr.
SlotPresent(v) == idt[v].type_attr \div 128 = 1

\* C28: at every step of int_Init, each field store taken as one step,
\* a slot whose present flag is set decodes to the entry point of a
\* handler, the fallback or another, and never to an address put together
\* from fragments of two.
C28_NoTornDescriptor ==
    pc.at \in {"cli", "gate", "mask_primary", "mask_secondary", "sti"} =>
        \A v \in Vectors : SlotPresent(v) => SlotHandler(v) \in HandlerIds

(***************************************************************************)
(* kernel/term.c: the cursor.  term_Init reads the dimensions the boot     *)
(* loader left at 0x5084 and 0x5086 (16 bits each, so that 8 * column and  *)
(* 8 * row stay far below 2^64); each call of term_WriteChar is one step.  *)
(***************************************************************************)

\* The widest and the highest screen, in pixels.
MaxWidth == 25

MaxHeight == 25

\* Everything but term.
termRest == <<intVars, memVars, rand, printk>>

\* The characters told apart by term_WriteChar.
Chars == {"\n", "\r", "x"}

\* Lines 21-30: the state term_Init leaves.
InitTerm ==
    /\ Parked
    /\ rand = <<>> /\ printk = <<>>
    /\ \E width \in 0..MaxWidth, height \in 0..MaxHeight :
        term = [term_Width |-> width, term_Height |-> height,
                term_row |-> 0, term_column |-> 0, c |-> ""]

\* The cursor kept when 8 * n does not exceed the limit.
Fits_Inclusive(n, limit) == 8 * n <= limit

\* 8*(++n) < limit
Fits(n, limit) == 8 * n < limit

\* Lines 91-98, from the label wrap_bottom.
WrapBottom(cursor) ==
    IF Fits(cursor.term_row + 1, cursor.term_Height)
    THEN [cursor EXCEPT !.term_column = 0, !.term_row = @ + 1]
    ELSE [cursor EXCEPT !.term_column = 0, !.term_row = 0]

\* Lines 74-98: term_WriteChar(c).
term_WriteChar(cursor, c) ==
    CASE c = "\n" -> WrapBottom(cursor)
      [] c = "\r" -> [cursor EXCEPT !.term_column = 0]
      [] OTHER -> IF Fits(cursor.term_column + 1, cursor.term_Width)
                  THEN [cursor EXCEPT !.term_column = @ + 1]
                  ELSE WrapBottom(cursor)

WriteChar ==
    /\ pc.at = "lib" /\ term # <<>>
    /\ \E c \in Chars : term' = [term_WriteChar(term, c) EXCEPT !.c = c]
    /\ UNCHANGED termRest

NextTerm == WriteChar

SpecTerm == InitTerm /\ [][NextTerm]_vars

\* The cursor is on the screen.
C29_OnScreen ==
    (term.term_Width > 0 /\ term.term_Height > 0) =>
        /\ 8 * term.term_column < term.term_Width
        /\ 8 * term.term_row < term.term_Height

\* The row a wrap, a newline included, leaves.
NextRow == IF 8 * (term.term_row + 1) < term.term_Height THEN term.term_row + 1 ELSE 0

\* What one call does to the cursor.
C29_Step ==
    (term.term_Width > 0 /\ term.term_Height > 0) =>
        /\ term'.c = "\r" => term'.term_column = 0 /\ term'.term_row = term.term_row
        /\ term'.c = "\n" => term'.term_column = 0 /\ term'.term_row = NextRow
        /\ term'.c = "x" =>
            IF 8 * (term.term_column + 1) < term.term_Width
            THEN term'.term_column = term.term_column + 1 /\ term'.term_row = term.term_row
            ELSE term'.term_column = 0 /\ term'.term_row = NextRow

\* C29: after term_Init with a width and a height above 0, and after any
\* sequence of term_WriteChar calls, 8 * term_column < term_Width and
\* 8 * term_row < term_Height; the column is 0 after a wrap, a newline and
\* a carriage return, and the row after the last is row 0.
C29_CursorOnScreen == []C29_OnScreen /\ [][C29_Step]_vars

\* A character written in the last column of the last row has taken the
\* cursor back to the first column of the first row.
C29_Witness ==
    /\ term.term_Width > 16 /\ term.term_Height > 16
    /\ term.c = "x"
    /\ term.term_column = 0 /\ term.term_row = 0

(***************************************************************************)
(* kernel/std.c: the verb parser of std_Printk, one iteration of the loop  *)
(* over the format per step.  The format is any string over FormatChars of *)
(* at most MaxFormat characters: printk.c is format[i], and each step      *)
(* chooses format[i + 1].  What an iteration writes is recorded by the     *)
(* error text, or by the kind of value with the modifiers that shape it.   *)
(***************************************************************************)

\* The longest format string.
MaxFormat == 5

\* Modifiers, digits, verbs, the percent sign, a character that is none of
\* these, and the terminating 0.
FormatChars == {"u", "+", "m", " ", "w", "0", "8", "d", "x", "c", "s", "p", "%", "a"}

EndOfFormat == "end"

\* Everything but printk.
printkRest == <<intVars, memVars, rand, term>>

\* Lines 192-200: the locals before the loop.
NoModifiers ==
    [inVerb |-> FALSE, isUnsigned |-> FALSE, isSigned |-> FALSE, isMemory |-> FALSE,
     isWidth |-> FALSE, isZero |-> FALSE, addSpace |-> FALSE, size |-> 0, minWidth |-> 0]

InitPrintk ==
    /\ Parked
    /\ rand = <<>> /\ term = <<>>
    /\ \E c \in FormatChars \cup {EndOfFormat} :
        printk = [flags |-> NoModifiers, i |-> 0, c |-> c,
                  wrote |-> "", completed |-> FALSE, returned |-> FALSE]

\* (int8)x
Int8(x) == ((x + 128) % 256) - 128

Digit(c) == IF c = "8" THEN 8 ELSE 0

\* The characters format[i + 1] can be.
Following == IF printk.i + 1 < MaxFormat THEN FormatChars \cup {EndOfFormat} ELSE {EndOfFormat}

\* The iteration ends with i++: flags f, what was written, and whether the
\* iteration went through exit_verb.
Continue(f, wrote, completed) ==
    \E c \in Following :
        printk' = [flags |-> f, i |-> printk.i + 1, c |-> c,
                   wrote |-> wrote, completed |-> completed, returned |-> FALSE]

\* Lines 646-654: exit_verb.
ExitVerb(f) ==
    [f EXCEPT !.inVerb = FALSE, !.isUnsigned = FALSE, !.isSigned = FALSE,
              !.isMemory = FALSE, !.isWidth = FALSE, !.isZero = FALSE,
              !.size = 0, !.minWidth = 0]

\* Lines 207-210: non-verb content.
PrintkText ==
    /\ pc.at = "lib" /\ printk # <<>> /\ ~printk.returned
    /\ printk.c # EndOfFormat
    /\ ~printk.flags.inVerb /\ printk.c # "%"
    /\ Continue(printk.flags, printk.c, FALSE)
    /\ UNCHANGED printkRest

\* Lines 214-225: a percent sign outside a verb, followed by a second one
\* or opening a verb.
PrintkPercent ==
    /\ pc.at = "lib" /\ printk # <<>> /\ ~printk.returned
    /\ ~printk.flags.inVerb /\ printk.c = "%"
    /\ \E c \in Following :
        IF c = "%"
        THEN \E after \in (IF printk.i + 2 < MaxFormat
                           THEN FormatChars \cup {EndOfFormat} ELSE {EndOfFormat}) :
                printk' = [printk EXCEPT !.i = @ + 2, !.c = after,
                                         !.wrote = "%", !.completed = FALSE]
        ELSE printk' = [printk EXCEPT !.flags.inVerb = TRUE, !.i = @ + 1, !.c = c,
                                      !.wrote = "", !.completed = FALSE]
    /\ UNCHANGED printkRest

\* Lines 229-291: the switch over the modifiers.
PrintkModifier ==
    /\ pc.at = "lib" /\ printk # <<>> /\ ~printk.returned
    /\ printk.flags.inVerb
    /\ printk.c \in {"u", "+", "m", " ", "w", "0", "8"}
    /\ LET f == printk.flags
           c == printk.c
           typed == f.isUnsigned \/ f.isSigned \/ f.isMemory
       IN  CASE c = "u" -> IF typed THEN Continue(f, "%u!(BAD_MODIFIER)", FALSE)
                           ELSE Continue([f EXCEPT !.isUnsigned = TRUE], "", FALSE)
             [] c = "+" -> IF typed THEN Continue(f, "%+!(BAD_MODIFIER)", FALSE)
                           ELSE Continue([f EXCEPT !.isSigned = TRUE], "", FALSE)
             [] c = "m" -> IF typed THEN Continue(f, "%m!(BAD_MODIFIER)", FALSE)
                           ELSE Continue([f EXCEPT !.isMemory = TRUE], "", FALSE)
             [] c = " " -> IF f.addSpace THEN Continue(f, "% !(BAD_MODIFIER)", FALSE)
                           ELSE Continue([f EXCEPT !.addSpace = TRUE], "", FALSE)
             [] c = "w" -> IF f.isUnsigned \/ f.isSigned \/ f.isZero
                           THEN Continue(f, "%u!(BAD_MODIFIER)", FALSE)
                           ELSE Continue([f EXCEPT !.isWidth = TRUE], "", FALSE)
             [] OTHER ->
                    IF c = "0" /\ ~f.isZero /\ ~f.isWidth /\ f.size = 0 /\ f.minWidth = 0
                    THEN Continue([f EXCEPT !.isZero = TRUE], "", FALSE)
                    ELSE IF typed
                    THEN Continue([f EXCEPT !.size = Int8(10 * f.size + Digit(c))], "", FALSE)
                    ELSE IF f.isWidth \/ f.isZero
                    THEN Continue([f EXCEPT !.minWidth = 10 * f.minWidth + Digit(c)], "", FALSE)
                    ELSE Continue(ExitVerb(f), "%u!(BAD_MODIFIER)", TRUE)
    /\ UNCHANGED printkRest

\* What a verb writes: an error text, or the kind of value with the
\* modifiers that shape it.
VerbOutput(f, c) ==
    CASE c = "d" \/ (c = "x" /\ ~f.isMemory) ->
            IF f.isMemory THEN <<"%!n(MEMORY)">>
            ELSE IF f.addSpace THEN <<"%!n(SPACE)">>
            ELSE IF f.size \in {8, 16, 32, 64}
            THEN <<"integer", c, f.size, f.isUnsigned, f.isSigned, f.minWidth, f.isZero>>
            ELSE IF f.size = 0 THEN <<"%!n(MISSING_SIZE)">>
            ELSE <<"%!n(BAD_SIZE)">>
      [] c = "c" ->
            IF f.isUnsigned THEN <<"%!c(UNSIGNED)">>
            ELSE IF f.isSigned THEN <<"%!c(SIGNED)">>
            ELSE IF f.isMemory THEN <<"%!c(MEMORY)">>
            ELSE IF f.addSpace THEN <<"%!c(SPACE)">>
            ELSE IF f.isWidth THEN <<"%!c(WIDTH)">>
            ELSE IF f.isZero THEN <<"%!c(ZERO)">>
            ELSE <<"character">>
      [] c = "s" ->
            IF f.isUnsigned THEN <<"%!s(UNSIGNED)">>
            ELSE IF f.isSigned THEN <<"%!s(SIGNED)">>
            ELSE IF f.addSpace THEN <<"%!s(SPACE)">>
            ELSE IF f.isZero THEN <<"%!s(ZERO)">>
            ELSE IF f.isMemory THEN <<"string", f.size, f.minWidth>>
            ELSE <<"%!s(STRING)">>
      [] c = "x" ->
            IF f.isUnsigned THEN <<"%!x(UNSIGNED)">>
            ELSE IF f.isSigned THEN <<"%!x(SIGNED)">>
            ELSE IF f.isWidth THEN <<"%!x(WIDTH)">>
            ELSE IF f.isZero THEN <<"%!x(ZERO)">>
            ELSE <<"buffer", f.size, f.addSpace>>
      [] c = "p" ->
            IF f.isUnsigned THEN <<"%!p(UNSIGNED)">>
            ELSE IF f.isSigned THEN <<"%!p(SIGNED)">>
            ELSE IF f.isMemory THEN <<"%!p(MEMORY)">>
            ELSE IF f.addSpace THEN <<"%!p(SPACE)">>
            ELSE IF f.isWidth THEN <<"%!p(WIDTH)">>
            ELSE IF f.isZero THEN <<"%!p(ZERO)">>
            ELSE <<"pointer">>

\* Lines 304-642: a verb, which ends at exit_verb.
PrintkVerb ==
    /\ pc.at = "lib" /\ printk # <<>> /\ ~printk.returned
    /\ printk.flags.inVerb
    /\ printk.c \in {"d", "x", "c", "s", "p"}
    /\ Continue(ExitVerb(printk.flags), VerbOutput(printk.flags, printk.c), TRUE)
    /\ UNCHANGED printkRest

\* Lines 643-644: a character that is neither modifier nor verb; the
\* parser stays in the verb.
PrintkUnrecognised ==
    /\ pc.at = "lib" /\ printk # <<>> /\ ~printk.returned
    /\ printk.flags.inVerb
    /\ printk.c \in {"%", "a"}
    /\ Continue(printk.flags, "%!(BAD_MODIFIER)", FALSE)
    /\ UNCHANGED printkRest

\* Lines 657-662: the end of the format.
PrintkReturn ==
    /\ pc.at = "lib" /\ printk # <<>> /\ ~printk.returned
    /\ printk.c = EndOfFormat
    /\ printk' = [printk EXCEPT !.returned = TRUE, !.completed = FALSE,
                                !.wrote = IF printk.flags.inVerb THEN "%!(MISSING)" ELSE ""]
    /\ UNCHANGED printkRest

NextPrintk ==
    \/ PrintkText
    \/ PrintkPercent
    \/ PrintkModifier
    \/ PrintkVerb
    \/ PrintkUnrecognised
    \/ PrintkReturn

SpecPrintk == InitPrintk /\ [][NextPrintk]_vars

\* C30: when a verb has been completed the parser is in its initial state:
\* it is outside a verb and the unsigned, signed, memory, width,
\* zero-prefix and space flags, the size and the minimum width are
\* cleared, so that nothing of the verb reaches the next one.
C30_ParserReset == printk.completed => printk.flags = NoModifiers

====
